---------------------------- MODULE Spec2Model ----------------------------
(***************************************************************************)
(* GroupThink: durable conversation workflow engine.                       *)
(*                                                                         *)
(* Part A models context assembly (workflow.ts: getChannelContext,         *)
(* getThreadContext, discordMessagesToLLMConversation; discord.ts:         *)
(* getAllMessages) over message logs drawn from bounded sets.              *)
(*                                                                         *)
(* A log is a chronological sequence of entries.  An entry stands for n    *)
(* consecutive messages of one author and one kind of content; n is 1      *)
(* except for the bulk entry, which stands for maxMessages plain user      *)
(* messages, so that logs longer than the retrieval window are reachable.  *)
(* id is the position (1 = oldest) of the entry's first message in its log.*)
(*                                                                         *)
(* Part B models one execution of GroupThinkWorkflow.run (workflow.ts) on  *)
(* the host's durable step executor: a step whose body has completed is    *)
(* checkpointed under its name; an engine restart replays run() from the   *)
(* top, returning checkpointed results instead of running bodies again.    *)
(* The model's response is a sequence of text segments separated by        *)
(* message breaks (a blank line), each segment given by its length in      *)
(* characters, and may carry file-attachment blocks.                       *)
(***************************************************************************)
EXTENDS Integers, Sequences, FiniteSets, Bags, TLC

VARIABLES
    parentLog,      \* the channel's log (the parent channel, for a thread)
    threadLog,      \* the thread's own log (empty for a plain channel)
    hasParent,      \* getChannel(threadId).parent_id is set
    asmPc,          \* "init" | "fetched" | "converted"
    asmMode,        \* "none" | "channel" | "thread"
    context,        \* result of fetchContext
    conversation    \* result of discordMessagesToLLMConversation

asmVars == <<parentLog, threadLog, hasParent, asmPc, asmMode, context, conversation>>

VARIABLES
    job,            \* event.payload: [type, isThread, instruction]
    mcp,            \* what the "-# mcp:" lines of the log configure: "none" | "ok" | "refresh" | "oauth401"
    response,       \* the model's response: segment lengths, whether a tool is requested, whether files are attached
    pc,             \* position in run()
    stepName,       \* the step whose body is executing, or "none"
    todo,           \* the external calls left in a delivery step's body
    stepState,      \* the executor's checkpoint per step name: "none" | "done" | "failed"
    fetched,        \* checkpointed result of fetch-messages
    result,         \* checkpointed result of call-claude
    attempts,       \* attempts of call-claude the executor has started
    crashes,        \* engine restarts so far
    stream,         \* locals of the call-claude body
    haveTools,      \* resolveTool is defined (in memory, set by the MCP setup)
    clock,          \* [posted, since]: a last post time is recorded, and the time since it
    placeholder,    \* the deferred interaction response: "pending" | "deleted"
    caught,         \* the error run()'s catch block holds, or "none"
    outcome,        \* "running" | "completed" | "failed"
    raised,         \* the error run() threw to the host, or "none"
    sent,           \* bag of the messages posted: <<channel, what, index, inside a step>>
    acts,           \* set of the other external requests made: <<what, inside a step>>
    modelCalls      \* requests made to the model

jobVars == <<job, mcp, response, pc, stepName, todo, stepState, fetched, result,
             attempts, crashes, stream, haveTools, clock, placeholder, caught,
             outcome, raised, sent, acts, modelCalls>>

VARIABLES
    csPhase,        \* chatStream: "idle" | "request" | "read" | "resolve" | "returned" | "threw"
    requests,       \* model requests chatStream has issued
    hasResolver,    \* options.resolveTool is supplied
    signal,         \* options.signal.aborted
    chunks,         \* the chunks reader.read() has yet to deliver in this round
    lines,          \* the events left of the chunk being processed
    buffer,         \* the unterminated last line read so far
    contentBlocks,  \* readToolStream: the round's completed content blocks
    roundUsage,     \* readToolStream: usage of the round
    fullText,       \* text deltas accumulated over all rounds
    lastUpdate,     \* the accumulated text last handed to onUpdate
    usage,          \* usage merged over the rounds
    toolsUsed,      \* names pushed: [earlier, latest]
    apiMessages,    \* the running message list: [earlier, tail]
    pending,        \* tool calls of the round whose resolution has not completed
    finished,       \* tool calls of the round in the order their resolution completed
    csReturn        \* what chatStream returned

csVars == <<csPhase, requests, hasResolver, signal, chunks, lines, buffer, contentBlocks,
            roundUsage, fullText, lastUpdate, usage, toolsUsed, apiMessages, pending,
            finished, csReturn>>

VARIABLES
    fnPc,           \* a function under study: which step of it comes next
    fnIn,           \* its input
    fnMem,          \* its working memory (locals, module-level state)
    fnOut           \* its output so far

fnVars == <<fnPc, fnIn, fnMem, fnOut>>

vars == <<asmVars, jobVars, csVars, fnVars>>

---------------------------------------------------------------------------
(* Bounds and program constants *)

MaxLog == 3             \* entries in the parent log plus entries in the thread log

MaxSeg == 2             \* text segments in the model's response
MaxCrashes == 1       \* engine restarts during one job
MaxCount == 2         \* copies of one post that are told apart
MaxBlocks == 2          \* content blocks in one streaming round
MaxUsageRounds == 3     \* rounds whose usage is merged
MaxRuns == 3            \* runs of characters in a text to split
MaxTurns == 6           \* turns of a conversation to mark for caching
MaxChannel == 4         \* entries of a channel log that grows while jobs run
MaxEvents == 5          \* stream events of one round, taken one by one
MaxParas == 3           \* paragraphs of one streamed output

maxMessages == 500      \* getAllMessages: maxMessages = 500
pageLimit == 100        \* getAllMessages: ?limit=100
MIN_CHARS == 120        \* minimum chars before posting an incremental message
MIN_INTERVAL_MS == 4000 \* minimum ms between posts
RetryLimit == 2         \* RETRY_OPTS.retries.limit
BreakLen == 2           \* length of the blank-line MESSAGE_BREAK
MAX_ROUNDS == 10        \* chatStream: MAX_ROUNDS
MAX_MESSAGE_LENGTH == 2000

---------------------------------------------------------------------------
(* Sequence helpers *)

Min(a, b) == IF a < b THEN a ELSE b
Max(a, b) == IF a > b THEN a ELSE b
SetMax(S) == CHOOSE x \in S : \A y \in S : y <= x

Reverse(s) == [i \in 1..Len(s) |-> s[Len(s) + 1 - i]]
Front(s) == SubSeq(s, 1, Len(s) - 1)

\* Array.prototype.slice(start) with a 0-based start index
SliceFrom(s, start0) == SubSeq(s, start0 + 1, Len(s))

---------------------------------------------------------------------------
(* Messages *)

\* U user text, B bot text, S bot summary marker, M bot "-#" metadata line,
\* E whitespace-only content, Q user text that starts with the marker text,
\* F a run of maxMessages user text messages, A a user message without text
\* that carries a plain-text or JPEG attachment
EntryTypes == {"U", "B", "S", "M", "E", "Q", "F", "A"}

EntryBot(t) == t \in {"B", "S", "M"}
EntryKind(t) ==
    CASE t \in {"U", "B", "F"} -> "text"
      [] t \in {"S", "Q"}      -> "summary"
      [] t = "M"               -> "meta"
      [] t = "E"               -> "empty"
      [] t = "A"               -> "attachment"
EntryCount(t) == IF t = "F" THEN maxMessages ELSE 1

RECURSIVE CountUpTo(_, _)
CountUpTo(ts, k) == IF k = 0 THEN 0 ELSE CountUpTo(ts, k - 1) + EntryCount(ts[k])

MkLog(ts, ch) ==
    [i \in 1..Len(ts) |->
        [ch |-> ch, id |-> 1 + CountUpTo(ts, i - 1), bot |-> EntryBot(ts[i]),
         kind |-> EntryKind(ts[i]), n |-> EntryCount(ts[i])]]

\* number of messages an entry sequence stands for
RECURSIVE Size(_)
Size(s) == IF s = <<>> THEN 0 ELSE Head(s).n + Size(Tail(s))

\* the message positions an entry sequence covers, per log
Ids(s, ch) == UNION {{s[i].id + k : k \in 0..(s[i].n - 1)} : i \in {j \in 1..Len(s) : s[j].ch = ch}}

---------------------------------------------------------------------------
(* discord.ts: getAllMessages *)

\* the pagination loop: how many messages it has collected when it stops
RECURSIVE FetchLoop(_, _)
FetchLoop(count, total) ==
    IF ~(count < maxMessages) THEN count
    ELSE LET batch == Min(pageLimit, total - count)
         IN  IF batch = 0 THEN count
             ELSE IF batch < pageLimit THEN count + batch
             ELSE FetchLoop(count + batch, total)

\* the newest k messages of a log, chronological
RECURSIVE TakeNewest(_, _)
TakeNewest(log, k) ==
    IF k = 0 \/ log = <<>> THEN <<>>
    ELSE LET m == log[Len(log)]
         IN  IF m.n <= k THEN Append(TakeNewest(Front(log), k - m.n), m)
             ELSE <<[m EXCEPT !.id = m.id + (m.n - k), !.n = k]>>

\* newest first, at most maxMessages
getAllMessages(log) == Reverse(TakeNewest(log, FetchLoop(0, Size(log))))

---------------------------------------------------------------------------
(* workflow.ts: context collection *)

\* the author is not looked at
isSummaryMarker_AnyAuthor(msg) == msg.kind = "summary"

isSummaryMarker(msg) == msg.bot /\ msg.kind = "summary"

\* messages.findLastIndex(isSummaryMarker): 0-based index of the last marker, or -1
findLastSummaryMarker(s) ==
    LET hits == {i \in 1..Len(s) : isSummaryMarker(s[i])}
    IN  IF hits = {} THEN -1 ELSE SetMax(hits) - 1

\* the slice starts after the marker instead of at it
getChannelContext_SkipsMarker(log) ==
    LET chronological == Reverse(getAllMessages(log))
        found == findLastSummaryMarker(chronological)
        startIndex == IF found >= 0 THEN found + 1 ELSE 0
    IN  SliceFrom(chronological, startIndex)

getChannelContext(log) ==
    LET chronological == Reverse(getAllMessages(log))
        found == findLastSummaryMarker(chronological)
        startIndex == IF found >= 0 THEN found ELSE 0
    IN  SliceFrom(chronological, startIndex)

getThreadContext(tlog, parentSet, plog) ==
    IF ~parentSet THEN Reverse(getAllMessages(tlog))
    ELSE getChannelContext(plog) \o Reverse(getAllMessages(tlog))

fetchContext(isThread) ==
    IF isThread THEN getThreadContext(threadLog, hasParent, parentLog)
    ELSE getChannelContext(parentLog)

---------------------------------------------------------------------------
(* workflow.ts: conversation conversion *)

NonEmpty(m) == m.kind \notin {"empty", "attachment"}

NotMetadata_KeepsAll(m) == TRUE

NotMetadata(m) == m.kind # "meta"

ToTurn(m) ==
    [role |-> IF m.bot THEN "assistant" ELSE "user",
     ch |-> m.ch, id |-> m.id, n |-> m.n, synthetic |-> FALSE]

ContinueTurn == [role |-> "user", ch |-> "none", id |-> 0, n |-> 1, synthetic |-> TRUE]

\* the continuation turn is pushed whatever the role of the last turn
discordMessagesToLLMConversation_AlwaysContinue(messages) ==
    LET lastSummaryMarkerIndex == findLastSummaryMarker(messages)
        kept == SelectSeq(SelectSeq(SliceFrom(messages, Max(0, lastSummaryMarkerIndex)),
                                    NonEmpty), NotMetadata)
        turns == [i \in 1..Len(kept) |-> ToTurn(kept[i])]
    IN  IF turns # <<>> THEN Append(turns, ContinueTurn) ELSE turns

discordMessagesToLLMConversation(messages) ==
    LET lastSummaryMarkerIndex == findLastSummaryMarker(messages)
        kept == SelectSeq(SelectSeq(SliceFrom(messages, Max(0, lastSummaryMarkerIndex)),
                                    NonEmpty), NotMetadata)
        turns == [i \in 1..Len(kept) |-> ToTurn(kept[i])]
    IN  IF turns # <<>> /\ turns[Len(turns)].role = "assistant"
        THEN Append(turns, ContinueTurn)
        ELSE turns


---------------------------------------------------------------------------
(* Part B: the workflow.  Inputs. *)

JobTypes == {"chat", "summarize", "post-to-channel", "branch-with-summary"}

\* the payloads the command handlers submit
Jobs ==
    [type : {"chat"}, isThread : BOOLEAN, instruction : BOOLEAN]
    \cup [type : {"summarize"}, isThread : {FALSE}, instruction : {FALSE}]
    \cup [type : {"post-to-channel"}, isThread : {TRUE}, instruction : {FALSE}]
    \cup [type : {"branch-with-summary"}, isThread : BOOLEAN, instruction : {FALSE}]

McpConfigs == {"none", "ok", "refresh", "oauth401"}

\* logs a job runs on: empty, only an empty message, only a metadata line, a
\* metadata line and a user message
JobLogs == {<<>>, <<"E">>, <<"M">>, <<"M", "U">>}

SegLengths == {MIN_CHARS \div 2, MIN_CHARS}
\* responses: up to MaxSeg segments, the last one long
SegSeqs == {s \in UNION {[1..j -> SegLengths] : j \in 1..MaxSeg} : s[Len(s)] = MIN_CHARS}

StepNames == {"fetch-messages", "post-instruction-message", "call-claude",
              "post-response", "get-thread-info", "send-error-response",
              "get-channel-info", "create-branch", "send-error"}

NoResult == [sentUpTo |-> 0, posted |-> FALSE, aborted |-> FALSE]
NoStream == [phase |-> "idle", round |-> 0, got |-> 0, sentUpTo |-> 0,
             aborted |-> FALSE, toolSeen |-> FALSE, posts |-> 0]
NoClock == [posted |-> FALSE, since |-> MIN_INTERVAL_MS]

NoUsage == [set |-> FALSE, tokens |-> 0, tag |-> 0]

FnIdle ==
    /\ fnPc = "idle"
    /\ fnIn = <<>>
    /\ fnMem = <<>>
    /\ fnOut = <<>>

CsIdle ==
    /\ csPhase = "idle"
    /\ requests = 0
    /\ hasResolver = FALSE
    /\ signal = FALSE
    /\ chunks = <<>>
    /\ lines = <<>>
    /\ buffer = <<>>
    /\ contentBlocks = <<>>
    /\ roundUsage = NoUsage
    /\ fullText = 0
    /\ lastUpdate = 0
    /\ usage = NoUsage
    /\ toolsUsed = [earlier |-> 0, latest |-> <<>>]
    /\ apiMessages = [earlier |-> 0, tail |-> <<>>]
    /\ pending = {}
    /\ finished = <<>>
    /\ csReturn = [text |-> 0, usage |-> NoUsage, toolsUsed |-> 0]

JobIdle ==
    /\ job = [type |-> "none", isThread |-> FALSE, instruction |-> FALSE]
    /\ mcp = "none"
    /\ response = [segs |-> <<>>, tool |-> FALSE, files |-> FALSE]
    /\ pc = "idle"
    /\ stepName = "none"
    /\ todo = <<>>
    /\ stepState = [n \in StepNames |-> "none"]
    /\ fetched = <<>>
    /\ result = NoResult
    /\ attempts = 0
    /\ crashes = 0
    /\ stream = NoStream
    /\ haveTools = FALSE
    /\ clock = NoClock
    /\ placeholder = "pending"
    /\ caught = "none"
    /\ outcome = "idle"
    /\ raised = "none"
    /\ sent = EmptyBag
    /\ acts = {}
    /\ modelCalls = 0

---------------------------------------------------------------------------
(* Part B: run() on the durable step executor *)

Running == outcome = "running"
IsChat == job.type = "chat"

\* a run() that starts at the model call
FirstPc_StartsAtModel(j) == "call-claude"

\* the first step of each process* method
FirstPc(j) == IF j.type = "post-to-channel" THEN "get-thread-info" ELSE "fetch-messages"

\* where run() continues once the step `name` has returned
NextPc(name) ==
    CASE name = "fetch-messages" ->
            (CASE job.type = "chat" -> "mcp-resolve"
               [] job.type = "branch-with-summary" -> "get-channel-info"
               [] OTHER -> "call-claude")
      [] name = "get-thread-info" ->
            IF hasParent THEN "fetch-messages" ELSE "send-error-response"
      [] name = "get-channel-info" -> "call-claude"
      [] name = "post-instruction-message" -> "mcp-tools"
      [] name = "call-claude" ->
            IF job.type = "branch-with-summary" THEN "create-branch" ELSE "post-response"
      [] name = "send-error" -> "rethrow"
      [] OTHER -> "return"

\* the record of posts counts up to MaxCount copies of a message
Post(bag, m) == IF CopiesIn(m, bag) >= MaxCount THEN bag ELSE bag (+) SetToBag({m})
Count(n) == Min(n + 1, MaxCount)

\* one external call of a step body
Send(ch, what, idx, wait, stamp) ==
    [op |-> "send", ch |-> ch, what |-> what, idx |-> idx, wait |-> wait, stamp |-> stamp]
Call(op) ==
    [op |-> op, ch |-> "none", what |-> op, idx |-> 0, wait |-> FALSE, stamp |-> FALSE]

\* sendMessageWithFiles: the request for the last part when artifacts were parsed
SendFiles(ch, what, idx) ==
    [op |-> "sendFiles", ch |-> ch, what |-> what, idx |-> idx, wait |-> FALSE,
     stamp |-> TRUE]

\* a delivery loop that sends every part with the artifacts
ChatPostResponse_FilesOnEveryPart ==
    IF result.aborted THEN <<>>
    ELSE LET n == Len(response.segs)
             parts == [k \in 1..(n - result.sentUpTo) |->
                          IF response.files
                          THEN SendFiles("origin", "part", result.sentUpTo + k)
                          ELSE Send("origin", "part", result.sentUpTo + k,
                                    result.sentUpTo + k # n, TRUE)]
         IN  parts \o <<Send("origin", "usage", 0, TRUE, FALSE), Call("delete")>>

\* post-response of a chat job: the parts parsed from text.slice(sentUpTo), one
\* per remaining segment, then the usage line, then the placeholder's deletion
ChatPostResponse ==
    IF result.aborted THEN <<>>
    ELSE LET n == Len(response.segs)
             parts == [k \in 1..(n - result.sentUpTo) |->
                          IF result.sentUpTo + k = n /\ response.files
                          THEN SendFiles("origin", "part", n)
                          ELSE Send("origin", "part", result.sentUpTo + k,
                                    result.sentUpTo + k # n, TRUE)]
         IN  parts \o <<Send("origin", "usage", 0, TRUE, FALSE), Call("delete")>>

CreateBranch ==
    LET deliver == <<Send("target", "summary", 1, FALSE, FALSE),
                     Send("target", "usage", 0, FALSE, FALSE),
                     Send("origin", "branch-created", 0, FALSE, FALSE),
                     Call("delete")>>
    IN  IF job.isThread
        THEN IF ~hasParent
             THEN <<Send("origin", "no-parent", 0, FALSE, FALSE), Call("delete")>>
             ELSE <<Send("parent", "starter", 0, FALSE, FALSE), Call("createThread")>>
                  \o deliver
        ELSE <<Call("createChannel")>> \o deliver

\* the external calls of a step body, in order (the streaming body of a chat
\* job's call-claude is modelled by the Stream actions instead)
Body(name) ==
    CASE name \in {"fetch-messages", "get-thread-info", "get-channel-info"} -> <<Call("get")>>
      [] name = "post-instruction-message" ->
            <<Send("origin", "instruction", 0, FALSE, FALSE)>>
      [] name = "call-claude" -> IF IsChat THEN <<>> ELSE <<Call("model")>>
      [] name = "post-response" ->
            (CASE job.type = "chat" -> ChatPostResponse
               [] job.type = "summarize" ->
                    <<Send("origin", "summary", 1, FALSE, FALSE),
                      Send("origin", "usage", 0, FALSE, FALSE), Call("delete")>>
               [] OTHER ->
                    <<Send("parent", "insights", 1, FALSE, FALSE), Call("delete")>>)
      [] name = "send-error-response" ->
            <<Send("origin", "no-parent", 0, FALSE, FALSE), Call("delete")>>
      [] name = "create-branch" -> CreateBranch
      [] name = "send-error" ->
            <<Send("origin", "error", 0, FALSE, FALSE), Call("delete")>>

StartStream == [phase |-> "edit", round |-> 1, got |-> 0, sentUpTo |-> 0,
                aborted |-> FALSE, toolSeen |-> FALSE, posts |-> 0]

\* the result fetch-messages checkpoints
FetchResult ==
    IF job.type = "post-to-channel" THEN Reverse(getAllMessages(threadLog))
    ELSE fetchContext(job.isThread)

\* a run() whose catch block swallows the error and returns
Throw_Swallows(name) ==
    /\ caught' = name
    /\ pc' = "return"
    /\ UNCHANGED <<outcome, raised>>

\* an error leaves the process* method: run()'s catch block takes it, unless it
\* comes from the catch block's own step
Throw(name) ==
    IF name = "send-error"
    THEN /\ outcome' = "failed"
         /\ raised' = "send-error"
         /\ pc' = "ended"
         /\ caught' = caught
    ELSE /\ caught' = name
         /\ pc' = "send-error"
         /\ UNCHANGED <<outcome, raised>>

\* an executor that keeps no checkpoint
Checkpointed_Forgets(name) == FALSE

\* step.do(name, ..): has the executor a checkpoint for the step at pc
Checkpointed(name) == stepState[name] # "none"

\* an executor that retries call-claude without a limit
Fail_NoLimit ==
    /\ stepName = "call-claude"
    /\ attempts' = attempts + 1
    /\ todo' = Body("call-claude")
    /\ stream' = IF IsChat THEN StartStream ELSE NoStream
    /\ clock' = IF IsChat THEN NoClock ELSE clock
    /\ UNCHANGED <<pc, stepName, stepState, caught, outcome, raised>>

\* the body of the executing step threw: call-claude is retried under
\* RETRY_OPTS; a step given no retry configuration is taken to fail at once
Fail ==
    IF stepName = "call-claude" /\ attempts <= RetryLimit
    THEN /\ attempts' = attempts + 1
         /\ todo' = Body("call-claude")
         /\ stream' = IF IsChat THEN StartStream ELSE NoStream
         /\ clock' = IF IsChat THEN NoClock ELSE clock
         /\ UNCHANGED <<pc, stepName, stepState, caught, outcome, raised>>
    ELSE /\ stepState' = [stepState EXCEPT ![stepName] = "failed"]
         /\ stepName' = "none"
         /\ todo' = <<>>
         /\ stream' = NoStream
         /\ Throw(stepName)
         /\ UNCHANGED <<attempts, clock>>

\* a checkpointed step returns its result without running its body
ReplayStep ==
    /\ Running /\ stepName = "none" /\ pc \in StepNames
    /\ Checkpointed(pc) /\ stepState[pc] = "done"
    /\ pc' = NextPc(pc)
    /\ UNCHANGED <<asmVars, csVars, fnVars, job, mcp, response, stepName, todo, stepState, fetched,
                   result, attempts, crashes, stream, haveTools, clock, placeholder,
                   caught, outcome, raised, sent, acts, modelCalls>>

\* a step checkpointed as failed throws its error again
RethrowStep ==
    /\ Running /\ stepName = "none" /\ pc \in StepNames
    /\ Checkpointed(pc) /\ stepState[pc] = "failed"
    /\ Throw(pc)
    /\ UNCHANGED <<asmVars, csVars, fnVars, job, mcp, response, stepName, todo, stepState, fetched,
                   result, attempts, crashes, stream, haveTools, clock, placeholder,
                   sent, acts, modelCalls>>

\* step.do starts the body of a step that has no checkpoint
BeginStep ==
    /\ Running /\ stepName = "none" /\ pc \in StepNames
    /\ ~Checkpointed(pc)
    /\ stepName' = pc
    /\ todo' = Body(pc)
    /\ attempts' = IF pc = "call-claude" THEN attempts + 1 ELSE attempts
    /\ stream' = IF pc = "call-claude" /\ IsChat THEN StartStream ELSE stream
    /\ clock' = CASE pc = "call-claude" /\ IsChat -> NoClock
                  [] pc = "post-response" /\ IsChat ->
                        IF result.posted THEN [clock EXCEPT !.posted = TRUE] ELSE NoClock
                  [] OTHER -> clock
    /\ UNCHANGED <<asmVars, csVars, fnVars, job, mcp, response, pc, stepState, fetched, result,
                   crashes, haveTools, placeholder, caught, outcome, raised, sent,
                   acts, modelCalls>>

\* what a call that returned has done
Record(e) ==
    LET inside == stepName # "none"
        slept == e.wait /\ clock.posted /\ clock.since < MIN_INTERVAL_MS
    IN  /\ sent' = IF e.op \in {"send", "sendFiles"}
                   THEN Post(sent, <<e.ch, e.what, e.idx, inside>>) ELSE sent
        /\ acts' = IF e.op \in {"edit", "delete", "createThread", "createChannel"}
                   THEN acts \cup {<<e.op, inside>>} ELSE acts
        /\ modelCalls' = IF e.op = "model" THEN Count(modelCalls) ELSE modelCalls
        /\ placeholder' = IF e.op = "delete" THEN "deleted" ELSE placeholder
        /\ clock' = CASE e.stamp -> [posted |-> TRUE, since |-> 0]
                      [] ~e.stamp /\ slept -> [clock EXCEPT !.since = MIN_INTERVAL_MS]
                      [] OTHER -> clock

\* the next external call of the executing step body returns, or throws;
\* sendMessageWithFiles also returns when the platform answers with an error
Perform ==
    /\ Running /\ stepName # "none" /\ todo # <<>>
    /\ LET e == Head(todo)
       IN  \/ /\ Record(e)
              /\ todo' = Tail(todo)
              /\ UNCHANGED <<pc, stepName, stepState, attempts, stream, caught, outcome,
                             raised>>
           \/ /\ e.op = "sendFiles"
              /\ acts' = acts \cup {<<"rejected", stepName # "none">>}
              /\ clock' = [posted |-> TRUE, since |-> 0]
              /\ todo' = Tail(todo)
              /\ UNCHANGED <<pc, stepName, stepState, attempts, stream, caught, outcome,
                             raised, sent, placeholder, modelCalls>>
           \/ /\ Fail
              /\ modelCalls' = IF e.op = "model" THEN Count(modelCalls) ELSE modelCalls
              /\ UNCHANGED <<sent, acts, placeholder>>
    /\ UNCHANGED <<asmVars, csVars, fnVars, job, mcp, response, fetched, result, crashes, haveTools>>

\* the body returned: its result is checkpointed under the step's name
FinishStep ==
    /\ Running /\ stepName # "none" /\ todo = <<>>
    /\ ~(stepName = "call-claude" /\ IsChat)
    /\ stepState' = [stepState EXCEPT ![stepName] = "done"]
    /\ fetched' = IF stepName = "fetch-messages" THEN FetchResult ELSE fetched
    /\ pc' = NextPc(stepName)
    /\ stepName' = "none"
    /\ UNCHANGED <<asmVars, csVars, fnVars, job, mcp, response, todo, result, attempts, crashes, stream,
                   haveTools, clock, placeholder, caught, outcome, raised, sent, acts, modelCalls>>

\* the process* method returned: run() resolves
Return ==
    /\ Running /\ pc = "return"
    /\ outcome' = "completed"
    /\ pc' = "ended"
    /\ UNCHANGED <<asmVars, csVars, fnVars, job, mcp, response, stepName, todo, stepState, fetched,
                   result, attempts, crashes, stream, haveTools, clock, placeholder,
                   caught, raised, sent, acts, modelCalls>>

\* after the send-error step, the catch block throws the caught error
Rethrow ==
    /\ Running /\ pc = "rethrow"
    /\ outcome' = "failed"
    /\ raised' = caught
    /\ pc' = "ended"
    /\ UNCHANGED <<asmVars, csVars, fnVars, job, mcp, response, stepName, todo, stepState, fetched,
                   result, attempts, crashes, stream, haveTools, clock, placeholder,
                   caught, sent, acts, modelCalls>>

\* the engine restarts: run() is replayed from the top; memory is lost, the
\* checkpoints are kept, an interrupted attempt is not counted, time has passed
Crash ==
    /\ Running /\ crashes < MaxCrashes
    /\ crashes' = crashes + 1
    /\ pc' = FirstPc(job)
    /\ stepName' = "none"
    /\ todo' = <<>>
    /\ stream' = NoStream
    /\ haveTools' = FALSE
    /\ caught' = "none"
    /\ attempts' = IF stepName = "call-claude" THEN attempts - 1 ELSE attempts
    /\ \E t \in {clock.since, MIN_INTERVAL_MS} : clock' = [clock EXCEPT !.since = t]
    /\ UNCHANGED <<asmVars, csVars, fnVars, job, mcp, response, stepState, fetched, result, placeholder,
                   outcome, raised, sent, acts, modelCalls>>

---------------------------------------------------------------------------
(* Part B: processChat outside its steps, and the streaming call-claude body *)

\* resolveMcpServersWithOAuth: an expired token is refreshed and the new blob
\* posted; a failure of either is caught and logged
ResolveMcp ==
    /\ Running /\ pc = "mcp-resolve"
    /\ pc' = IF job.instruction THEN "post-instruction-message" ELSE "mcp-tools"
    /\ IF mcp = "refresh"
       THEN \/ UNCHANGED <<sent, acts>>
            \/ /\ acts' = acts \cup {<<"oauth-refresh", stepName # "none">>}
               /\ \/ sent' = Post(sent, <<"origin", "oauth-refreshed", 0,
                                                 stepName # "none">>)
                  \/ sent' = sent
       ELSE UNCHANGED <<sent, acts>>
    /\ UNCHANGED <<asmVars, csVars, fnVars, job, mcp, response, stepName, todo, stepState, fetched,
                   result, attempts, crashes, stream, haveTools, clock, placeholder,
                   caught, outcome, raised, modelCalls>>

\* "Prepare MCP tools": fetchAllMcpTools, sendOAuthPrompts for servers that
\* answered 401, resolveTool and onToolCall defined when tools were listed
FetchTools ==
    /\ Running /\ pc = "mcp-tools"
    /\ pc' = "call-claude"
    /\ CASE mcp = "none" ->
              /\ haveTools' = FALSE
              /\ UNCHANGED <<sent, acts>>
         [] mcp = "oauth401" ->
              /\ haveTools' = FALSE
              /\ acts' = acts \cup {<<"mcp-list", stepName # "none">>}
              /\ \/ sent' = Post(sent, <<"origin", "oauth-prompt", 0,
                                                stepName # "none">>)
                 \/ sent' = sent
         [] OTHER ->
              /\ haveTools' \in BOOLEAN
              /\ acts' = acts \cup {<<"mcp-list", stepName # "none">>}
              /\ sent' = sent
    /\ UNCHANGED <<asmVars, csVars, fnVars, job, mcp, response, stepName, todo, stepState, fetched,
                   result, attempts, crashes, stream, clock, placeholder, caught,
                   outcome, raised, modelCalls>>

Streaming == Running /\ stepName = "call-claude" /\ IsChat

\* the model answers in two rounds when it requests a tool that can be resolved
TwoRounds == response.tool /\ haveTools
RoundEnd(round) == IF TwoRounds /\ round = 1 THEN 1 ELSE Len(response.segs)

RECURSIVE SegSum(_, _, _)
SegSum(segs, a, b) == IF a > b THEN 0 ELSE segs[a] + SegSum(segs, a + 1, b)

\* length of accumulated.slice(sentUpTo, candidateEnd).trim(): segments
\* a+1..b and the breaks between them
PartLen(a, b) == SegSum(response.segs, a + 1, b) + BreakLen * (b - a - 1)

\* segments closed by a message break once `got` segments have arrived
CandidateEnd(got) == Min(got, Len(response.segs) - 1)

\* one message carrying segments a+1..b
RECURSIVE PostParts(_, _, _)
PostParts(bag, a, b) ==
    IF a >= b THEN bag ELSE PostParts(Post(bag, <<"origin", "part", a + 1, TRUE>>), a + 1, b)

\* editOriginalResponse(.., "Thinking...")
StreamEdit ==
    /\ Streaming /\ stream.phase = "edit"
    /\ \/ /\ stream' = [stream EXCEPT !.phase = "request"]
          /\ acts' = acts \cup {<<"edit", TRUE>>}
          /\ UNCHANGED <<pc, stepName, todo, stepState, attempts, clock, caught,
                         outcome, raised>>
       \/ /\ Fail
          /\ UNCHANGED acts
    /\ UNCHANGED <<asmVars, csVars, fnVars, job, mcp, response, fetched, result, crashes, haveTools,
                   placeholder, sent, modelCalls>>

\* apiPost of one round; fetch rejects at once when the signal is aborted
StreamRequest ==
    /\ Streaming /\ stream.phase = "request"
    /\ \/ /\ ~stream.aborted
          /\ stream' = [stream EXCEPT !.phase = "read"]
          /\ modelCalls' = Count(modelCalls)
          /\ UNCHANGED <<pc, stepName, todo, stepState, attempts, clock, caught,
                         outcome, raised>>
       \/ /\ Fail
          /\ modelCalls' = IF stream.aborted THEN modelCalls ELSE Count(modelCalls)
    /\ UNCHANGED <<asmVars, csVars, fnVars, job, mcp, response, fetched, result, crashes, haveTools,
                   placeholder, sent, acts>>

\* `if (Date.now() - lastPostTime < MIN_INTERVAL_MS) return;`
TooSoon_Never == FALSE

TooSoon == clock.posted /\ clock.since < MIN_INTERVAL_MS

\* a text delta completes the next segment; onUpdate(accumulated) runs
StreamDelta ==
    /\ Streaming /\ stream.phase = "read"
    /\ stream.got < RoundEnd(stream.round)
    /\ LET got == stream.got + 1
           candidateEnd == CandidateEnd(got)
           quiet == \/ candidateEnd <= stream.sentUpTo
                    \/ PartLen(stream.sentUpTo, candidateEnd) < MIN_CHARS
                    \/ TooSoon
       IN  IF quiet
           THEN /\ stream' = [stream EXCEPT !.got = got]
                /\ UNCHANGED <<sent, clock>>
           ELSE \/ /\ placeholder # "deleted"    \* posted
                   /\ sent' = PostParts(sent, stream.sentUpTo, candidateEnd)
                   /\ clock' = [posted |-> TRUE, since |-> 0]
                   /\ stream' = [stream EXCEPT !.got = got, !.sentUpTo = candidateEnd,
                                               !.posts = @ + 1]
                \/ /\ placeholder # "deleted"    \* sendMessage threw: swallowed
                   /\ stream' = [stream EXCEPT !.got = got]
                   /\ UNCHANGED <<sent, clock>>
                \/ /\ stream' = [stream EXCEPT !.got = got, !.aborted = TRUE]
                   /\ UNCHANGED <<sent, clock>>    \* getOriginalResponse gave null
    /\ UNCHANGED <<asmVars, csVars, fnVars, job, mcp, response, pc, stepName, todo, stepState, fetched,
                   result, attempts, crashes, haveTools, placeholder, caught, outcome,
                   raised, acts, modelCalls>>

\* reader.read() throws an error that is not an abort
StreamReadError ==
    /\ Streaming /\ stream.phase = "read" /\ ~stream.aborted
    /\ Fail
    /\ UNCHANGED <<asmVars, csVars, fnVars, job, mcp, response, fetched, result, crashes, haveTools,
                   placeholder, sent, acts, modelCalls>>

\* the round's stream is done, or left because the signal is aborted
StreamRoundEnd ==
    /\ Streaming /\ stream.phase = "read"
    /\ stream.got = RoundEnd(stream.round) \/ stream.aborted
    /\ \E seen \in BOOLEAN :
          /\ seen => TwoRounds /\ stream.round = 1 /\ stream.got = 1
          /\ ~seen => ~(TwoRounds /\ stream.round = 1) \/ stream.aborted
          /\ stream' = [stream EXCEPT !.toolSeen = seen,
                                      !.phase = IF seen THEN "tool" ELSE "return"]
    /\ UNCHANGED <<asmVars, csVars, fnVars, job, mcp, response, pc, stepName, todo, stepState, fetched,
                   result, attempts, crashes, haveTools, clock, placeholder, caught,
                   outcome, raised, sent, acts, modelCalls>>

\* onToolCall posts the notice, resolveTool calls the tool server
StreamTool ==
    /\ Streaming /\ stream.phase = "tool"
    /\ \/ /\ sent' = Post(sent, <<"origin", "tool-call", 0, TRUE>>)
          /\ acts' = acts \cup {<<"tool", TRUE>>}
          /\ stream' = [stream EXCEPT !.phase = "request", !.round = 2]
          /\ UNCHANGED <<pc, stepName, todo, stepState, attempts, clock, caught,
                         outcome, raised>>
       \/ /\ sent' = Post(sent, <<"origin", "tool-call", 0, TRUE>>)
          /\ acts' = acts \cup {<<"tool", TRUE>>}
          /\ Fail
       \/ /\ Fail
          /\ UNCHANGED <<sent, acts>>
    /\ UNCHANGED <<asmVars, csVars, fnVars, job, mcp, response, fetched, result, crashes, haveTools,
                   placeholder, modelCalls>>

\* the body returns {text, usage, sentUpTo, lastPostTime, aborted}: checkpointed
StreamReturn ==
    /\ Streaming /\ stream.phase = "return"
    /\ result' = [sentUpTo |-> stream.sentUpTo, posted |-> clock.posted,
                  aborted |-> stream.aborted]
    /\ stepState' = [stepState EXCEPT !["call-claude"] = "done"]
    /\ stepName' = "none"
    /\ stream' = NoStream
    /\ pc' = NextPc("call-claude")
    /\ UNCHANGED <<asmVars, csVars, fnVars, job, mcp, response, todo, fetched, attempts, crashes,
                   haveTools, clock, placeholder, caught, outcome, raised, sent, acts, modelCalls>>

\* someone removes the "Thinking..." placeholder while the response streams
UserDeletesPlaceholder ==
    /\ Streaming /\ stream.phase = "read" /\ ~stream.aborted
    /\ placeholder # "deleted"
    /\ placeholder' = "deleted"
    /\ UNCHANGED <<asmVars, csVars, fnVars, job, mcp, response, pc, stepName, todo, stepState, fetched,
                   result, attempts, crashes, stream, haveTools, clock, caught, outcome,
                   raised, sent, acts, modelCalls>>

\* time passes after a post
Tick ==
    /\ Running /\ IsChat /\ stepName \in {"call-claude", "post-response"}
    /\ clock.posted /\ clock.since < MIN_INTERVAL_MS
    /\ clock' = [clock EXCEPT !.since = MIN_INTERVAL_MS]
    /\ UNCHANGED <<asmVars, csVars, fnVars, job, mcp, response, pc, stepName, todo, stepState, fetched,
                   result, attempts, crashes, stream, haveTools, placeholder, caught,
                   outcome, raised, sent, acts, modelCalls>>

---------------------------------------------------------------------------
(* Specification of the workflow *)

HasMcpLine(ts) == \E i \in 1..Len(ts) : ts[i] = "M"

InitWith(jobs, logs, segSeqs) ==
    /\ job \in jobs
    /\ hasParent \in (IF job.isThread THEN BOOLEAN ELSE {TRUE})
    /\ \E ts \in logs :
          /\ parentLog = IF job.isThread THEN <<>> ELSE MkLog(ts, "parent")
          /\ threadLog = IF job.isThread THEN MkLog(ts, "thread") ELSE <<>>
          /\ mcp \in (IF job.type = "chat" /\ HasMcpLine(ts) THEN McpConfigs ELSE {"none"})
    /\ \E segs \in segSeqs, tool \in BOOLEAN, files \in BOOLEAN :
          /\ tool => mcp = "ok"
          /\ files => job.type = "chat" /\ mcp = "none"
          /\ job.type # "chat" => segs = <<MIN_CHARS>>
          /\ response = [segs |-> segs, tool |-> tool, files |-> files]
    /\ asmPc = "init"
    /\ asmMode = "none"
    /\ context = <<>>
    /\ conversation = <<>>
    /\ pc = FirstPc(job)
    /\ stepName = "none"
    /\ todo = <<>>
    /\ stepState = [n \in StepNames |-> "none"]
    /\ fetched = <<>>
    /\ result = NoResult
    /\ attempts = 0
    /\ crashes = 0
    /\ stream = NoStream
    /\ haveTools = FALSE
    /\ clock = NoClock
    /\ placeholder = "pending"
    /\ caught = "none"
    /\ outcome = "running"
    /\ raised = "none"
    /\ sent = EmptyBag
    /\ acts = {}
    /\ modelCalls = 0
    /\ CsIdle
    /\ FnIdle

\* every job; the thread of a chat job has its parent channel
Init == InitWith(Jobs, JobLogs, SegSeqs) /\ (job.type = "chat" => hasParent)

Next ==
    \/ ReplayStep \/ RethrowStep \/ BeginStep \/ Perform \/ FinishStep
    \/ Return \/ Rethrow \/ Crash
    \/ ResolveMcp \/ FetchTools
    \/ StreamEdit \/ StreamRequest \/ StreamDelta \/ StreamReadError
    \/ StreamRoundEnd \/ StreamTool \/ StreamReturn
    \/ UserDeletesPlaceholder \/ Tick

Spec == Init /\ [][Next]_vars

\* what the workflow itself does next: every step but the environment's
\* (restart, read error, removal of the placeholder, passing of time)
Progress ==
    \/ ReplayStep \/ RethrowStep \/ BeginStep \/ Perform \/ FinishStep
    \/ Return \/ Rethrow
    \/ ResolveMcp \/ FetchTools
    \/ StreamEdit \/ StreamRequest \/ StreamDelta
    \/ StreamRoundEnd \/ StreamTool \/ StreamReturn

\* jobs on a log with a metadata line and a user message
InitFair == Init /\ Size(parentLog) + Size(threadLog) = 2

\* a chat job in a channel whose response has one segment more than MaxSeg, so
\* that a streaming call can post incrementally more than once
LongSegSeqs == {s \in [1..(MaxSeg + 1) -> SegLengths] : s[MaxSeg + 1] = MIN_CHARS}

InitLong ==
    InitWith({[type |-> "chat", isThread |-> FALSE, instruction |-> FALSE]},
             {<<"M", "U">>}, LongSegSeqs)

SpecLong == InitLong /\ [][Next]_vars

\* the jobs that run on a thread, with and without a parent channel
ThreadJobs == {j \in Jobs : j.isThread}

InitThread == InitWith(ThreadJobs, JobLogs, SegSeqs)

SpecThread == InitThread /\ [][Next]_vars

\* every external call eventually returns or fails, and the executor keeps
\* running the job
FairSpec == InitFair /\ [][Next]_vars /\ WF_vars(Progress)

---------------------------------------------------------------------------
(* Properties of the workflow *)

Ended == outcome # "running"
Posted(m) == CopiesIn(m, sent)

\* C1: each portion of the model's output (incremental part, final part,
\* usage report) is posted at most once per job, whatever the retries of
\* call-claude, the restarts and the re-executions of a delivery step.
C1_PostedAtMostOnce ==
    \A m \in BagToSet(sent) : m[2] \in {"part", "usage"} => Posted(m) <= 1

\* C2: a step that is checkpointed as completed never has its body started
\* again and keeps its checkpointed result, across restarts too.
C2_CheckpointedStepNotRerun ==
    [][/\ \A n \in StepNames :
             stepState[n] = "done" => stepName' # n /\ stepState'[n] = "done"
       /\ stepState["fetch-messages"] = "done" => fetched' = fetched
       /\ stepState["call-claude"] = "done" => result' = result]_vars

\* a restart during post-response of a one-segment chat: the final part went
\* out twice, the model was called once
C2_Witness ==
    /\ crashes = 1 /\ job.type = "chat" /\ Len(response.segs) = 1
    /\ Posted(<<"origin", "part", 1, TRUE>>) = 2
    /\ modelCalls = 1 /\ attempts = 1
    /\ outcome = "completed"

\* C3: every externally visible effect (a post, an edit or deletion of the
\* placeholder, a channel or thread creation, a request to a tool server or a
\* token refresh) is performed inside a named durable step.
C3_EffectsInsideSteps ==
    /\ \A m \in BagToSet(sent) : m[4]
    /\ \A a \in acts : a[2]

\* C8: when the conversation assembled from the fetched messages is empty, the
\* job makes no request to the model, posts a "no history" notice to the
\* origin channel and completes.
C8_EmptyConversationSkipsModel ==
    stepState["fetch-messages"] = "done" /\ discordMessagesToLLMConversation(fetched) = <<>>
        => /\ modelCalls = 0
           /\ Ended => outcome = "completed" /\ Posted(<<"origin", "no-history", 0, TRUE>>) > 0

\* C9: a job whose step raised an error ends failed with that same error
\* raised to the host, also when the error notice itself fails.
C9_RaisesCaughtError ==
    outcome = "failed" => caught # "none" /\ raised = caught

DeliverySteps == {"post-response", "create-branch"}

\* C12: a delivery step is not run again after it failed, a delivery request
\* the platform answered with an error makes its step fail, and a job with a
\* failed delivery step ends failed.
C12_DeliveryFailureSurfaces ==
    /\ <<"rejected", TRUE>> \in acts => stepState["post-response"] # "done"
    /\ \A d \in DeliverySteps :
          stepState[d] = "failed" => stepName # d /\ (Ended => outcome = "failed")

\* C13: a job that ends without raising an error has issued the request that
\* deletes the deferred-response placeholder.
C13_CompletedJobClearedPlaceholder ==
    outcome = "completed" => <<"delete", TRUE>> \in acts

\* the external call at the head of the executing body throws
StepThrows == Perform /\ (stepState'[stepName] = "failed" \/ attempts' > attempts)

FinalPosts ==
    {<<"origin", "usage", 0, TRUE>>, <<"origin", "summary", 1, TRUE>>,
     <<"parent", "insights", 1, TRUE>>, <<"target", "summary", 1, TRUE>>,
     <<"target", "usage", 0, TRUE>>, <<"origin", "branch-created", 0, TRUE>>}

\* steps in the order run() takes them: one at a time, the model after the
\* context, the results after the model
StepsInOrder ==
    /\ modelCalls > 0 => stepState["fetch-messages"] = "done"
    /\ stepName = "call-claude" => stepState["fetch-messages"] = "done"
    /\ (\E a \in acts : a[1] \in {"mcp-list", "oauth-refresh", "tool"})
          => stepState["fetch-messages"] = "done"
    /\ stepName \in DeliverySteps => stepState["call-claude"] = "done"
    /\ (\E m \in FinalPosts : Posted(m) > 0) => stepState["call-claude"] = "done"
    /\ stepState["call-claude"] = "done" => stepState["fetch-messages"] = "done"
    /\ \A d \in DeliverySteps :
          stepState[d] # "none" => stepState["call-claude"] = "done"

\* a chat job whose checkpointed stream result is aborted: post-response makes
\* no request
NothingLeftToFail ==
    job.type = "chat" /\ stepState["call-claude"] = "done" /\ result.aborted

AbortedOnRemoval ==
    /\ job.type = "chat" /\ placeholder = "deleted"
    /\ \/ stepName = "call-claude" /\ stream.aborted
       \/ stepState["call-claude"] = "done" /\ result.aborted

\* C15: once the stream of a chat job has been aborted because the placeholder
\* was found removed, the job posts nothing further and what it has posted
\* stays as it is.
C15_NoPostAfterAbort == [][AbortedOnRemoval => sent' = sent]_vars

\* an incremental post of the streaming call: onUpdate's sendMessage returned
IncrementalPost ==
    /\ stepName = "call-claude" /\ IsChat
    /\ stream.phase = "read"
    /\ stream'.posts = stream.posts + 1

\* C22: every incremental post made during streaming carries at least
\* MIN_CHARS characters and, when the same streaming call has posted before,
\* is made at least MIN_INTERVAL_MS after that post.
C22_IncrementalPostsGated ==
    [][IncrementalPost
         => /\ stream'.sentUpTo > stream.sentUpTo
            /\ SegSum(response.segs, stream.sentUpTo + 1, stream'.sentUpTo)
                  + BreakLen * (stream'.sentUpTo - stream.sentUpTo - 1) >= MIN_CHARS
            /\ stream.posts > 0 => clock.posted /\ clock.since >= MIN_INTERVAL_MS]_vars

C22_Witness ==
    /\ stepName = "call-claude"
    /\ stream.posts = 2
    /\ stream.sentUpTo = 2
    /\ clock.since = 0

\* a part of the remainder is posted by post-response
FinalPartPost ==
    /\ stepName = "post-response" /\ IsChat
    /\ todo # <<>> /\ Head(todo).what = "part"
    /\ todo' = Tail(todo)
    /\ clock'.since = 0

\* C23: in final delivery every part, the first one after the last
\* incremental post included, is posted at least MIN_INTERVAL_MS after the
\* post before it: either that much time has passed or the delivery loop
\* sleeps before it posts.
C23_FinalPartsSpaced ==
    [][FinalPartPost /\ clock.posted
         => clock.since >= MIN_INTERVAL_MS \/ Head(todo).wait]_vars

\* a chat job that completed without a failed step or a restart
CompletedCleanly ==
    outcome = "completed" /\ IsChat /\ attempts <= 1 /\ crashes = 0

\* C35: in a chat job without step failures sentUpTo never decreases and
\* never passes the accumulated text, every incremental post ends at a
\* message break, and the incremental posts together with the parts of final
\* delivery cover the model's output exactly once.
C35_OutputCoveredExactlyOnce ==
    /\ [](Streaming => stream.sentUpTo <= stream.got
                       /\ stream.sentUpTo < Len(response.segs))
    /\ [][(Streaming /\ Streaming' /\ attempts' = attempts /\ crashes' = crashes)
            => stream'.sentUpTo >= stream.sentUpTo]_vars
    /\ [](CompletedCleanly =>
            \A i \in 1..Len(response.segs) : Posted(<<"origin", "part", i, TRUE>>) = 1)

\* C29: a job on a thread whose parent channel cannot be found tells the user
\* so in the origin channel, and ends.
C29_MissingParentReported ==
    (outcome = "completed" /\ job.isThread /\ ~hasParent)
    => Posted(<<"origin", "no-parent", 0, TRUE>>) >= 1

\* C25: in final delivery only the last message part is sent with the
\* artifacts: a part that another part follows is sent without files, and a
\* request with files is never followed by the request of another part.
C25_FilesOnLastPartOnly ==
    /\ [](\A i \in 1..Len(todo) :
            todo[i].op = "sendFiles"
               => /\ stepName = "post-response" /\ todo[i].what = "part"
                  /\ todo[i].idx = Len(response.segs)
                  /\ \A k \in (i + 1)..Len(todo) : todo[k].what # "part")
    /\ [][/\ stepName = "post-response" /\ IsChat /\ Len(todo) > 1
          /\ todo' = Tail(todo) /\ todo[2].what = "part"
          => Head(todo).op = "send"]_vars

C25_Witness ==
    /\ response.files
    /\ Len(response.segs) = 2
    /\ result.sentUpTo = 0
    /\ stepName = "post-response" /\ Len(todo) = 2
    /\ Posted(<<"origin", "part", 1, TRUE>>) = 1
    /\ Posted(<<"origin", "part", 2, TRUE>>) = 1

Delivered ==
    Posted(CASE job.type = "post-to-channel" -> <<"parent", "insights", 1, TRUE>>
             [] job.type = "branch-with-summary" -> <<"origin", "branch-created", 0, TRUE>>
             [] OTHER -> <<"origin", "usage", 0, TRUE>>) > 0
Noticed ==
    \/ Posted(<<"origin", "error", 0, TRUE>>) > 0
    \/ Posted(<<"origin", "no-parent", 0, TRUE>>) > 0
NoticeFailed == raised = "send-error"
StreamAborted == job.type = "chat" /\ result.aborted

---------------------------------------------------------------------------
(* Specification of context assembly *)

TypeSeqs(k) == UNION {[1..j -> EntryTypes] : j \in 0..k}

InitAsm ==
    /\ \E pt \in TypeSeqs(MaxLog), tt \in TypeSeqs(MaxLog) :
          /\ Len(pt) + Len(tt) <= MaxLog
          /\ parentLog = MkLog(pt, "parent")
          /\ threadLog = MkLog(tt, "thread")
    /\ hasParent \in BOOLEAN
    /\ (~hasParent => parentLog = <<>>)
    /\ asmPc = "init"
    /\ asmMode = "none"
    /\ context = <<>>
    /\ conversation = <<>>
    /\ JobIdle
    /\ CsIdle
    /\ FnIdle

AsmFetchChannel ==
    /\ asmPc = "init"
    /\ threadLog = <<>> /\ hasParent
    /\ context' = fetchContext(FALSE)
    /\ asmMode' = "channel"
    /\ asmPc' = "fetched"
    /\ UNCHANGED <<parentLog, threadLog, hasParent, conversation, jobVars, csVars, fnVars>>

AsmFetchThread ==
    /\ asmPc = "init"
    /\ context' = fetchContext(TRUE)
    /\ asmMode' = "thread"
    /\ asmPc' = "fetched"
    /\ UNCHANGED <<parentLog, threadLog, hasParent, conversation, jobVars, csVars, fnVars>>

AsmConvert ==
    /\ asmPc = "fetched"
    /\ conversation' = discordMessagesToLLMConversation(context)
    /\ asmPc' = "converted"
    /\ UNCHANGED <<parentLog, threadLog, hasParent, asmMode, context, jobVars, csVars, fnVars>>

NextAsm == AsmFetchChannel \/ AsmFetchThread \/ AsmConvert

SpecAsm == InitAsm /\ [][NextAsm]_vars

---------------------------------------------------------------------------
(* Properties of context assembly *)

\* author and kind of the message at position p of log ch, as an entry sequence has it
ContentAt(s, ch, p) ==
    LET e == CHOOSE x \in {s[i] : i \in 1..Len(s)} : x.ch = ch /\ x.id <= p /\ p < x.id + x.n
    IN  <<e.bot, e.kind>>

\* an entry sequence lists messages of the log it was read from, oldest first
Faithful(s, log, ch) ==
    /\ \A i \in 1..Len(s) : s[i].ch = ch /\ ContentAt(log, ch, s[i].id) = <<s[i].bot, s[i].kind>>
    /\ \A i, j \in 1..Len(s) : i < j => s[i].id + s[i].n <= s[j].id

MarkerIds(log) == {log[i].id : i \in {j \in 1..Len(log) : isSummaryMarker(log[j])}}

\* positions of the newest maxMessages messages of a log: what the accessor retrieves
WindowIds(log) == {p \in 1..Size(log) : p > Size(log) - maxMessages}

ChannelFetched == asmPc = "fetched" /\ asmMode = "channel"

ContentBearing(s) == SelectSeq(SelectSeq(s, NonEmpty), NotMetadata)
MessageTurns(conv) == SelectSeq(conv, LAMBDA t : ~t.synthetic)
TurnsOf(s) == [i \in 1..Len(s) |-> ToTurn(s[i])]

\* C5: for a thread that has a parent channel (both logs within the retrieval
\* window), the conversation is the parent channel's assembled context followed
\* by all of the thread's own messages, also when a checkpoint marker is among
\* the thread's own messages.
C5_ThreadKeepsParentContext ==
    (/\ asmPc = "converted" /\ asmMode = "thread" /\ hasParent
     /\ Size(parentLog) <= maxMessages /\ Size(threadLog) <= maxMessages)
    => MessageTurns(conversation)
         = TurnsOf(ContentBearing(getChannelContext(parentLog)))
             \o TurnsOf(ContentBearing(threadLog))

\* the log message a turn was made from
SourceOf(t) ==
    ContentAt(IF t.ch = "parent" THEN parentLog ELSE threadLog, t.ch, t.id)

\* C27: whatever the logs and whichever way the context was fetched, no turn
\* of the conversation is made from a "-#" metadata line.
C27_NoMetadataInConversation ==
    asmPc = "converted" =>
        \A i \in 1..Len(conversation) :
            ~conversation[i].synthetic => SourceOf(conversation[i])[2] # "meta"

C27_Witness ==
    /\ asmPc = "converted"
    /\ \E i \in 1..Len(context) : context[i].kind = "meta" /\ i < Len(context)
    /\ Len(MessageTurns(conversation)) = 2

\* C28: for a channel log without checkpoint marker (and within the retrieval
\* window), the message turns of the conversation are, in log order from the
\* first message on, the messages of the log that are not metadata lines and
\* carry text or an inlinable attachment.
C28_EveryContentBearingMessageHasTurn ==
    (/\ asmPc = "converted" /\ asmMode = "channel"
     /\ MarkerIds(parentLog) = {}
     /\ Size(parentLog) <= maxMessages)
    => MessageTurns(conversation)
         = TurnsOf(SelectSeq(parentLog, LAMBDA m : m.kind \notin {"meta", "empty"}))

\* C6: a non-empty assembled conversation starts with a user turn.
C6_FirstTurnIsUser ==
    (asmPc = "converted" /\ conversation # <<>>) => conversation[1].role = "user"

\* C7: assembly appends exactly one synthetic user continuation turn when the
\* last assembled message turn is an assistant turn (the last content-bearing
\* message of the context is bot-authored), and none otherwise, the empty
\* conversation included.
C7_ContinuationTurn ==
    asmPc = "converted" =>
        LET cb == ContentBearing(context)
            endsAssistant == cb # <<>> /\ cb[Len(cb)].bot
            syn == {i \in 1..Len(conversation) : conversation[i].synthetic}
        IN  /\ Cardinality(syn) = IF endsAssistant THEN 1 ELSE 0
            /\ syn \subseteq {Len(conversation)}
            /\ \A i \in syn : conversation[i].role = "user"
            /\ \A i \in 1..Len(conversation) :
                  (i + 1 \in syn) => conversation[i].role = "assistant"

\* a conversation of several turns that ends with the continuation turn
C7_Witness ==
    /\ asmPc = "converted"
    /\ Len(conversation) > 2
    /\ conversation[Len(conversation)].synthetic
    /\ conversation[Len(conversation) - 1].role = "assistant"

\* ---------------------------------------------------------------------------
\* Part C.  chatStream: the streaming call with its rounds of tool use
\* ---------------------------------------------------------------------------

\* The events of one round that matter: the usage carried by message_start,
\* a text block (start, one delta, stop), a tool_use block whose argument
\* JSON parses at block-stop, and one whose JSON does not.
BlockTypes == {"text", "tool", "badtool"}

UsageEvent == [type |-> "usage", id |-> 0]

Blocks(ts) == [i \in 1..Len(ts) |-> [type |-> ts[i], id |-> i]]

\* How the body reaches reader.read(): in one chunk, one event per chunk, or
\* one event per chunk with each event's line terminator arriving only with
\* the next chunk (the event then waits in `buffer`).
ChunkModes == {"whole", "split", "held"}

Chunked(ts, mode) ==
    IF mode = "whole"
    THEN << [lines |-> <<UsageEvent>> \o Blocks(ts), held |-> FALSE] >>
    ELSE << [lines |-> <<UsageEvent>>, held |-> FALSE] >>
         \o [i \in 1..Len(ts) |-> [lines |-> <<Blocks(ts)[i]>>, held |-> mode = "held"]]

RoundShapes ==
    {Chunked(ts, mode) : ts \in UNION {[1..n -> BlockTypes] : n \in 0..MaxBlocks},
                         mode \in ChunkModes}

\* mergeUsage: numeric fields are summed, the others overwritten.
mergeUsage(a, b) ==
    IF ~b.set THEN a
    ELSE IF ~a.set THEN b
    ELSE [set |-> TRUE, tokens |-> a.tokens + b.tokens, tag |-> b.tag]

\* readToolStream's toolUses: the tool_use blocks among the completed blocks.
toolUses == SelectSeq(contentBlocks, LAMBDA b : b.type = "tool")

\* The tool_result turn: Promise.all keeps the order of toolUses.map.
toolResults_CompletionOrder(uses, done) ==
    [i \in 1..Len(uses) |-> [tool_use_id |-> uses[done[i]].id]]

toolResults(uses, done) == [i \in 1..Len(uses) |-> [tool_use_id |-> uses[i].id]]

\* chatStream's return value.
ReturnValue(u) ==
    [text |-> fullText,
     usage |-> IF u.set THEN u ELSE [set |-> TRUE, tokens |-> 0, tag |-> 0],
     toolsUsed |-> toolsUsed.earlier + Len(toolsUsed.latest)]

\* `if (signal?.aborted) break;` at the top of the read loop.
MayRead_IgnoresSignal == TRUE

MayRead == ~signal

\* `round < MAX_ROUNDS` in the for loop.
MayRequest_NoCap == TRUE

MayRequest == requests < MAX_ROUNDS

\* `if (toolUses.length === 0 || !resolveTool) break;`
Breaks_OnlyWithoutTools(uses) == Len(uses) = 0

Breaks(uses) == Len(uses) = 0 \/ ~hasResolver

\* content_block_stop of a tool_use block: the parsed block, or nothing when
\* JSON.parse throws inside the inner try.
StopToolBlock_Throws(b) == <<[type |-> "error", id |-> b.id]>>

StopToolBlock(b) == IF b.type = "tool" THEN <<[type |-> "tool", id |-> b.id]>> ELSE <<>>

\* apiPost resolves and readToolStream starts on the response body.
CsRequest ==
    /\ csPhase = "request"
    /\ MayRequest
    /\ ~signal
    /\ requests' = requests + 1
    /\ \E shape \in RoundShapes : chunks' = shape
    /\ lines' = <<>>
    /\ buffer' = <<>>
    /\ contentBlocks' = <<>>
    /\ roundUsage' = NoUsage
    /\ csPhase' = "read"
    /\ UNCHANGED <<asmVars, jobVars, fnVars, hasResolver, signal, fullText, lastUpdate, usage,
                   toolsUsed, apiMessages, pending, finished, csReturn>>

\* apiPost rejects: the fetch fails, the status is not ok, or the signal is
\* already aborted.  Nothing in chatStream catches it.
CsRequestFails ==
    /\ csPhase = "request"
    /\ MayRequest
    /\ requests' = IF signal THEN requests ELSE requests + 1
    /\ csPhase' = "threw"
    /\ UNCHANGED <<asmVars, jobVars, fnVars, hasResolver, signal, chunks, lines, buffer,
                   contentBlocks, roundUsage, fullText, lastUpdate, usage, toolsUsed,
                   apiMessages, pending, finished, csReturn>>

\* The for loop ends because round reached MAX_ROUNDS.
CsLoopExit ==
    /\ csPhase = "request"
    /\ ~MayRequest
    /\ csPhase' = "returned"
    /\ csReturn' = ReturnValue(usage)
    /\ UNCHANGED <<asmVars, jobVars, fnVars, requests, hasResolver, signal, chunks, lines, buffer,
                   contentBlocks, roundUsage, fullText, lastUpdate, usage, toolsUsed,
                   apiMessages, pending, finished>>

\* reader.read() delivers the next chunk; its complete lines are queued.
CsRead ==
    /\ csPhase = "read"
    /\ lines = <<>>
    /\ MayRead
    /\ chunks # <<>>
    /\ LET c == Head(chunks)
           all == buffer \o c.lines
       IN /\ lines' = IF c.held THEN SubSeq(all, 1, Len(all) - 1) ELSE all
          /\ buffer' = IF c.held THEN <<all[Len(all)]>> ELSE <<>>
    /\ chunks' = Tail(chunks)
    /\ UNCHANGED <<asmVars, jobVars, fnVars, csPhase, requests, hasResolver, signal, contentBlocks,
                   roundUsage, fullText, lastUpdate, usage, toolsUsed, apiMessages,
                   pending, finished, csReturn>>

\* reader.read() rejects with something other than an AbortError.
CsReadFails ==
    /\ csPhase = "read"
    /\ lines = <<>>
    /\ MayRead
    /\ chunks # <<>>
    /\ csPhase' = "threw"
    /\ UNCHANGED <<asmVars, jobVars, fnVars, requests, hasResolver, signal, chunks, lines, buffer,
                   contentBlocks, roundUsage, fullText, lastUpdate, usage, toolsUsed,
                   apiMessages, pending, finished, csReturn>>

\* The caller aborts while a read is pending: read() rejects with an
\* AbortError, which the catch swallows; the buffered line is not processed.
CsAbortRead ==
    /\ csPhase = "read"
    /\ lines = <<>>
    /\ MayRead
    /\ chunks # <<>>
    /\ signal' = TRUE
    /\ buffer' = <<>>
    /\ UNCHANGED <<asmVars, jobVars, fnVars, csPhase, requests, hasResolver, chunks, lines,
                   contentBlocks, roundUsage, fullText, lastUpdate, usage, toolsUsed,
                   apiMessages, pending, finished, csReturn>>

\* processLine on the next queued line.  An error thrown by onUpdate is
\* swallowed by processLine's catch; onUpdate may abort the signal.
CsLine ==
    /\ csPhase = "read"
    /\ lines # <<>>
    /\ LET ev == Head(lines)
       IN /\ roundUsage' = IF ev.type = "usage"
                           THEN [set |-> TRUE, tokens |-> 1, tag |-> requests]
                           ELSE roundUsage
          /\ fullText' = IF ev.type = "text" THEN fullText + 1 ELSE fullText
          /\ lastUpdate' = IF ev.type = "text" THEN fullText + 1 ELSE lastUpdate
          /\ contentBlocks' =
                IF ev.type = "usage" THEN contentBlocks
                ELSE IF ev.type = "text" THEN Append(contentBlocks, ev)
                ELSE contentBlocks \o StopToolBlock(ev)
          /\ signal' \in (IF ev.type = "text" THEN {signal, TRUE} ELSE {signal})
    /\ lines' = Tail(lines)
    /\ UNCHANGED <<asmVars, jobVars, fnVars, csPhase, requests, hasResolver, chunks, buffer, usage,
                   toolsUsed, apiMessages, pending, finished, csReturn>>

\* After the loop, what is left in the buffer is processed as a last line.
CsFlush ==
    /\ csPhase = "read"
    /\ lines = <<>>
    /\ chunks = <<>> \/ ~MayRead
    /\ buffer # <<>>
    /\ lines' = buffer
    /\ buffer' = <<>>
    /\ UNCHANGED <<asmVars, jobVars, fnVars, csPhase, requests, hasResolver, signal, chunks,
                   contentBlocks, roundUsage, fullText, lastUpdate, usage, toolsUsed,
                   apiMessages, pending, finished, csReturn>>

\* readToolStream returns; chatStream merges the usage and either breaks out
\* of the loop and returns, or pushes the assistant turn and starts the
\* resolver on every tool call.
CsRoundEnd ==
    /\ csPhase = "read"
    /\ lines = <<>>
    /\ chunks = <<>> \/ ~MayRead
    /\ buffer = <<>>
    /\ usage' = mergeUsage(usage, roundUsage)
    /\ IF Breaks(toolUses)
       THEN /\ csPhase' = "returned"
            /\ csReturn' = ReturnValue(usage')
            /\ UNCHANGED <<toolsUsed, apiMessages, pending, finished>>
       ELSE /\ csPhase' = "resolve"
            /\ toolsUsed' = [earlier |-> toolsUsed.earlier + Len(toolsUsed.latest),
                             latest |-> [i \in 1..Len(toolUses) |-> toolUses[i].id]]
            /\ apiMessages' = [earlier |-> apiMessages.earlier + Len(apiMessages.tail),
                               tail |-> <<[role |-> "assistant", content |-> contentBlocks]>>]
            /\ pending' = 1..Len(toolUses)
            /\ finished' = <<>>
            /\ UNCHANGED csReturn
    /\ UNCHANGED <<asmVars, jobVars, fnVars, requests, hasResolver, signal, chunks, lines, buffer,
                   contentBlocks, roundUsage, fullText, lastUpdate>>

\* One of the parallel invocations (onToolCall, then resolveTool) completes.
CsToolDone ==
    /\ csPhase = "resolve"
    /\ \E i \in pending :
          /\ pending' = pending \ {i}
          /\ finished' = Append(finished, i)
    /\ UNCHANGED <<asmVars, jobVars, fnVars, csPhase, requests, hasResolver, signal, chunks, lines,
                   buffer, contentBlocks, roundUsage, fullText, lastUpdate, usage,
                   toolsUsed, apiMessages, csReturn>>

\* onToolCall or resolveTool rejects: Promise.all rejects, chatStream throws.
CsToolFails ==
    /\ csPhase = "resolve"
    /\ pending # {}
    /\ csPhase' = "threw"
    /\ UNCHANGED <<asmVars, jobVars, fnVars, requests, hasResolver, signal, chunks, lines, buffer,
                   contentBlocks, roundUsage, fullText, lastUpdate, usage, toolsUsed,
                   apiMessages, pending, finished, csReturn>>

\* Promise.all resolves: the tool results become a user turn and the loop
\* goes round.
CsCollect ==
    /\ csPhase = "resolve"
    /\ pending = {}
    /\ apiMessages' = [apiMessages EXCEPT
                         !.tail = Append(@, [role |-> "user",
                                             content |-> toolResults(toolUses, finished)])]
    /\ csPhase' = "request"
    /\ UNCHANGED <<asmVars, jobVars, fnVars, requests, hasResolver, signal, chunks, lines, buffer,
                   contentBlocks, roundUsage, fullText, lastUpdate, usage, toolsUsed,
                   pending, finished, csReturn>>

\* The caller aborts while the tools of a round are being resolved.
CsAbortResolve ==
    /\ csPhase = "resolve"
    /\ ~signal
    /\ signal' = TRUE
    /\ UNCHANGED <<asmVars, jobVars, fnVars, csPhase, requests, hasResolver, chunks, lines, buffer,
                   contentBlocks, roundUsage, fullText, lastUpdate, usage, toolsUsed,
                   apiMessages, pending, finished, csReturn>>

InitStream ==
    /\ parentLog = <<>>
    /\ threadLog = <<>>
    /\ hasParent = FALSE
    /\ asmPc = "init"
    /\ asmMode = "none"
    /\ context = <<>>
    /\ conversation = <<>>
    /\ JobIdle
    /\ FnIdle
    /\ csPhase = "request"
    /\ requests = 0
    /\ hasResolver \in BOOLEAN
    /\ signal = FALSE
    /\ chunks = <<>>
    /\ lines = <<>>
    /\ buffer = <<>>
    /\ contentBlocks = <<>>
    /\ roundUsage = NoUsage
    /\ fullText = 0
    /\ lastUpdate = 0
    /\ usage = NoUsage
    /\ toolsUsed = [earlier |-> 0, latest |-> <<>>]
    /\ apiMessages = [earlier |-> 1, tail |-> <<>>]
    /\ pending = {}
    /\ finished = <<>>
    /\ csReturn = [text |-> 0, usage |-> NoUsage, toolsUsed |-> 0]

NextStream ==
    \/ CsRequest \/ CsRequestFails \/ CsLoopExit
    \/ CsRead \/ CsReadFails \/ CsAbortRead \/ CsLine \/ CsFlush \/ CsRoundEnd
    \/ CsToolDone \/ CsToolFails \/ CsCollect \/ CsAbortResolve

SpecStream == InitStream /\ [][NextStream]_vars

\* Fair runs of chatStream: a pending await always settles one way or another
\* (the request resolves or rejects, a read returns, a resolver completes).
FairSpecStream == SpecStream /\ WF_vars(NextStream)

\* ---------------------------------------------------------------------------
\* Properties of chatStream
\* ---------------------------------------------------------------------------

TurnCount == apiMessages.earlier + Len(apiMessages.tail)

ToolCount == toolsUsed.earlier + Len(toolsUsed.latest)

\* C16: cancellation is cooperative.  Once the signal is set no further chunk
\* is read from the response stream and, when no line of an earlier chunk is
\* left to process, nothing more is processed; the text forwarded through
\* onUpdate never shrinks and is the text chatStream returns; the tool names
\* and message turns recorded for resolved tool calls are never taken back.
C16_CooperativeCancellation ==
    /\ [][signal => chunks' = chunks /\ requests' = requests]_vars
    /\ [][signal /\ lines = <<>> /\ buffer = <<>>
            => fullText' = fullText /\ contentBlocks' = contentBlocks /\ lastUpdate' = lastUpdate]_vars
    /\ [][lastUpdate' >= lastUpdate /\ fullText' >= fullText]_vars
    /\ [](csPhase = "returned" => csReturn.text = lastUpdate)
    /\ [][signal => /\ ToolCount' >= ToolCount
                    /\ toolsUsed'.earlier >= toolsUsed.earlier
                    /\ TurnCount' >= TurnCount
                    /\ apiMessages'.earlier >= apiMessages.earlier]_vars

C16_Witness ==
    /\ signal
    /\ csPhase = "returned"
    /\ chunks # <<>>
    /\ csReturn.text > 0
    /\ csReturn.toolsUsed > 0

\* C17 as stated: chatStream issues at most MAX_ROUNDS requests and always
\* ends by returning the accumulated text and usage.
C17_BoundedRoundsAlwaysReturns ==
    /\ [](requests <= MAX_ROUNDS)
    /\ <>(csPhase = "returned" /\ csReturn.text = fullText)

\* C17 amended: chatStream issues at most MAX_ROUNDS requests and always
\* ends; it ends by returning the accumulated text and usage unless a model
\* request, a read of the response body or a tool resolution fails, in which
\* case it ends by throwing.
C17_BoundedRoundsReturnsOrThrows ==
    /\ [](requests <= MAX_ROUNDS)
    /\ <>(csPhase \in {"returned", "threw"})
    /\ [](csPhase = "returned"
            => /\ csReturn.text = fullText
               /\ csReturn.usage.set
               /\ csReturn.usage.tokens = usage.tokens)
    /\ [][csPhase # "threw" /\ csPhase' = "threw"
            => \/ csPhase = "request"
               \/ csPhase = "read" /\ lines = <<>> /\ ~signal
               \/ csPhase = "resolve" /\ pending # {}]_vars
    /\ [][(csPhase = "returned" \/ csPhase = "threw") => csVars' = csVars]_vars

C17_Witness == csPhase = "returned" /\ requests = MAX_ROUNDS /\ Len(apiMessages.tail) = 2

\* C18: when a round completes with no tool call among its blocks, or no
\* resolver was supplied, chatStream returns at once: no further request, no
\* tool invocation, and the value returned holds the text of all rounds and
\* the usage merged over all rounds.
C18_ReturnsWithoutToolRound ==
    /\ [][/\ csPhase = "read" /\ csPhase' \notin {"read", "threw"}
          /\ Len(toolUses) = 0 \/ ~hasResolver
          => /\ csPhase' = "returned"
             /\ requests' = requests
             /\ pending' = pending /\ finished' = finished
             /\ toolsUsed' = toolsUsed /\ apiMessages' = apiMessages
             /\ csReturn'.text = fullText
             /\ csReturn'.usage.tokens = usage.tokens + roundUsage.tokens]_vars
    /\ [](csPhase = "returned" /\ ~signal
            => csReturn.usage.tokens = requests /\ csReturn.usage.tag = requests)
    /\ [][csPhase = "returned" => requests' = requests /\ pending' = pending]_vars

C18_Witness ==
    /\ csPhase = "returned"
    /\ hasResolver
    /\ requests = 2
    /\ Len(toolUses) = 0
    /\ csReturn.text = 2
    /\ csReturn.usage.tokens = 2

\* The ids of the tool_use blocks in a list of content blocks, in order.
ToolIds(blocks) ==
    LET uses == SelectSeq(blocks, LAMBDA b : b.type = "tool")
    IN [i \in 1..Len(uses) |-> uses[i].id]

\* C19: with a resolver, every tool_use block of a round is resolved and
\* named in toolsUsed, and the request of the next round carries, after the
\* round's assistant content blocks, one tool result per call in the order
\* the calls were emitted, whatever the order in which the resolver
\* invocations completed.
C19_ToolResultsInCallOrder ==
    /\ [](csPhase = "resolve"
            => /\ toolsUsed.latest = ToolIds(contentBlocks)
               /\ pending \cup {finished[i] : i \in 1..Len(finished)} = 1..Len(toolUses)
               /\ apiMessages.tail = <<[role |-> "assistant", content |-> contentBlocks]>>)
    /\ [][csPhase = "resolve" /\ csPhase' = "request"
            => {finished[i] : i \in 1..Len(finished)} = 1..Len(toolUses)]_vars
    /\ [][requests > 0 /\ requests' = requests + 1
            => /\ Len(apiMessages.tail) = 2
               /\ apiMessages.tail[1].role = "assistant"
               /\ apiMessages.tail[2].role = "user"
               /\ [i \in 1..Len(apiMessages.tail[2].content)
                     |-> apiMessages.tail[2].content[i].tool_use_id]
                  = ToolIds(apiMessages.tail[1].content)]_vars

C19_Witness ==
    /\ csPhase = "read"
    /\ requests = 2
    /\ Len(apiMessages.tail) = 2
    /\ Len(apiMessages.tail[2].content) = 2
    /\ finished = <<2, 1>>
    /\ toolsUsed.latest = <<1, 2>>

\* C20: a tool_use block whose argument JSON is malformed at block-stop is
\* dropped and nothing else happens: the round goes on with the lines and
\* chunks that are left, and every text block and well-formed tool_use block
\* of the round is still completed.
C20_MalformedToolDropped ==
    [][csPhase = "read" /\ lines # <<>>
         => /\ Head(lines).type = "badtool"
                => /\ csPhase' = "read"
                   /\ contentBlocks' = contentBlocks
                   /\ lines' = Tail(lines)
                   /\ chunks' = chunks /\ buffer' = buffer
                   /\ fullText' = fullText /\ signal' = signal
            /\ Head(lines).type \in {"text", "tool"}
                => contentBlocks' = Append(contentBlocks, Head(lines))]_vars

C20_Witness ==
    /\ ~signal
    /\ csPhase = "resolve"
    /\ contentBlocks = <<[type |-> "tool", id |-> 2]>>
    /\ finished = <<1>>

\* C38: every tool call the streaming call resolves has its result sent back
\* to the model in a later request of the same call, in any round up to the
\* round cap: the call does not return while the results of resolved tools
\* wait for a request that is never made.
C38_ToolResultsSentBack ==
    [][csPhase # "returned" /\ csPhase' = "returned"
         => ~(csPhase = "request" /\ finished # <<>>)]_vars

\* ---------------------------------------------------------------------------
\* Part D.  Functions studied on their own
\* ---------------------------------------------------------------------------

\* --- mergeUsage over the rounds of a streaming call --------------------------

\* A usage object maps a field to a number, to a non-numeric value (a string,
\* an object, null) or to nothing.
UsageFields == {"input_tokens", "service_tier"}

Absent == [kind |-> "none", v |-> 0]

UsageValues ==
    {Absent} \cup {[kind |-> "num", v |-> n] : n \in 1..2} \cup {[kind |-> "other", v |-> 1]}

UsageObjects == [UsageFields -> UsageValues]

EmptyUsage == [f \in UsageFields |-> Absent]

\* The body of mergeUsage's loop for one key: `val` is b's value, `old` is
\* result[key].
MergeField_Overwrites(old, val) == IF val.kind = "none" THEN old ELSE val

MergeField(old, val) ==
    IF val.kind = "none" THEN old
    ELSE IF val.kind = "num" /\ old.kind = "num"
         THEN [kind |-> "num", v |-> old.v + val.v]
         ELSE val

mergeUsageByField(a, b) == [f \in UsageFields |-> MergeField(a[f], b[f])]

\* `if (Object.keys(usage).length === 0) usage = { input_tokens: 0, ... }`
UsageOrZero(u) ==
    IF u = EmptyUsage
    THEN [u EXCEPT !["input_tokens"] = [kind |-> "num", v |-> 0]]
    ELSE u

UsageInit ==
    /\ parentLog = <<>> /\ threadLog = <<>> /\ hasParent = FALSE
    /\ asmPc = "init" /\ asmMode = "none" /\ context = <<>> /\ conversation = <<>>
    /\ JobIdle
    /\ CsIdle
    /\ fnPc = 1
    /\ fnIn \in UNION {[1..n -> UsageObjects] : n \in 0..MaxUsageRounds}
    /\ fnMem = EmptyUsage
    /\ fnOut = <<>>

\* `usage = mergeUsage(usage, roundUsage);` at the end of a round.
UsageMerge ==
    /\ fnPc \in 1..Len(fnIn)
    /\ fnMem' = mergeUsageByField(fnMem, fnIn[fnPc])
    /\ fnPc' = fnPc + 1
    /\ UNCHANGED <<asmVars, jobVars, csVars, fnIn, fnOut>>

\* The loop is left and chatStream returns the usage.
UsageReturn ==
    /\ fnPc = Len(fnIn) + 1
    /\ fnOut' = UsageOrZero(fnMem)
    /\ fnPc' = 0
    /\ UNCHANGED <<asmVars, jobVars, csVars, fnIn, fnMem>>

UsageNext == UsageMerge \/ UsageReturn

SpecUsage == UsageInit /\ [][UsageNext]_vars

\* The rounds that carry field f, and the last of them whose value for f is
\* not a number (0 if there is none).
RoundsWith(f) == {i \in 1..Len(fnIn) : fnIn[i][f].kind # "none"}

LastOther(f) ==
    LET others == {i \in RoundsWith(f) : fnIn[i][f].kind = "other"}
    IN IF others = {} THEN 0 ELSE CHOOSE i \in others : \A j \in others : j <= i

RECURSIVE SumFrom(_, _)
SumFrom(f, i) ==
    IF i > Len(fnIn) THEN 0
    ELSE (IF fnIn[i][f].kind = "num" THEN fnIn[i][f].v ELSE 0) + SumFrom(f, i + 1)

\* C21: in the usage a streaming call returns, a field that is a number in
\* every round that carries it holds the sum of the rounds' values; a field
\* that some round gives a non-numeric value holds that later value, and
\* summing starts again from the rounds after it.
C21_UsageSummedFieldByField ==
    fnPc = 0 =>
        \A f \in UsageFields :
            IF RoundsWith(f) = {}
            THEN fnOut[f].kind = "none" \/ (fnOut = UsageOrZero(EmptyUsage))
            ELSE IF LastOther(f) = 0
            THEN fnOut[f] = [kind |-> "num", v |-> SumFrom(f, 1)]
            ELSE IF \A i \in RoundsWith(f) : i <= LastOther(f)
            THEN fnOut[f] = fnIn[LastOther(f)][f]
            ELSE fnOut[f] = [kind |-> "num", v |-> SumFrom(f, LastOther(f) + 1)]

C21_Witness ==
    /\ fnPc = 0
    /\ Len(fnIn) = MaxUsageRounds
    /\ \A i \in 1..Len(fnIn) : fnIn[i]["input_tokens"].kind = "num"
    /\ fnOut["input_tokens"].v > 2
    /\ fnIn[1]["service_tier"].kind = "num"
    /\ fnIn[2]["service_tier"].kind = "other"
    /\ fnOut["service_tier"].kind = "num"

\* --- parseResponse and splitLongMessage ---------------------------------------

\* A text is a sequence of runs of one class of character: "x" (a character
\* that is neither white space nor sentence punctuation), "sp" (a space), "nl"
\* (a newline), and "file" (one whole <groupthink:file-attachment> element).
\* Adjacent runs are of different classes.
TextClasses == {"x", "sp", "nl", "file"}

RunLengths == {1, 2, MAX_MESSAGE_LENGTH \div 2, MAX_MESSAGE_LENGTH + 1}

Runs == [c : TextClasses \ {"file"}, n : RunLengths] \cup {[c |-> "file", n |-> 1]}

Texts ==
    {t \in UNION {[1..k -> Runs] : k \in 0..MaxRuns} :
        \A i \in 1..(Len(t) - 1) : t[i].c # t[i + 1].c}

\* what String.prototype.trim strips
IsSpace(c) == c \in {"sp", "nl"}

RECURSIVE TLen(_)
TLen(t) == IF t = <<>> THEN 0 ELSE t[1].n + TLen(Tail(t))

\* adjacent runs of one class are one run
RECURSIVE Norm(_)
Norm(t) ==
    IF t = <<>> THEN <<>>
    ELSE LET r == Norm(Tail(t))
         IN  IF t[1].n = 0 THEN r
             ELSE IF r # <<>> /\ r[1].c = t[1].c
                  THEN <<[c |-> t[1].c, n |-> t[1].n + r[1].n]>> \o Tail(r)
                  ELSE <<t[1]>> \o r

\* text.slice(0, k)
RECURSIVE Take(_, _)
Take(t, k) ==
    IF t = <<>> \/ k <= 0 THEN <<>>
    ELSE IF t[1].n <= k THEN <<t[1]>> \o Take(Tail(t), k - t[1].n)
         ELSE <<[c |-> t[1].c, n |-> k]>>

\* text.slice(k)
RECURSIVE Drop(_, _)
Drop(t, k) ==
    IF t = <<>> THEN <<>>
    ELSE IF k <= 0 THEN t
         ELSE IF t[1].n <= k THEN Drop(Tail(t), k - t[1].n)
              ELSE <<[c |-> t[1].c, n |-> t[1].n - k]>> \o Tail(t)

RECURSIVE TrimStart(_)
TrimStart(t) == IF t # <<>> /\ IsSpace(t[1].c) THEN TrimStart(Tail(t)) ELSE t

RECURSIVE TrimEnd(_)
TrimEnd(t) ==
    IF t # <<>> /\ IsSpace(t[Len(t)].c) THEN TrimEnd(SubSeq(t, 1, Len(t) - 1)) ELSE t

Trim(t) == TrimEnd(TrimStart(t))

\* text.lastIndexOf(c, from) for a single character of class c: the last
\* index <= from that holds it, or -1; `off` is the index of t's first
\* character.
RECURSIVE LastIndexOf(_, _, _, _)
LastIndexOf(t, c, from, off) ==
    IF t = <<>> \/ off > from THEN -1
    ELSE LET later == LastIndexOf(Tail(t), c, from, off + t[1].n)
         IN  IF later # -1 THEN later
             ELSE IF t[1].c = c THEN Min(off + t[1].n - 1, from) ELSE -1

\* text.lastIndexOf("\n\n", from)
RECURSIVE LastIndexOfBlank(_, _, _)
LastIndexOfBlank(t, from, off) ==
    IF t = <<>> \/ off > from THEN -1
    ELSE LET later == LastIndexOfBlank(Tail(t), from, off + t[1].n)
         IN  IF later # -1 THEN later
             ELSE IF t[1].c = "nl" /\ t[1].n >= 2 THEN Min(off + t[1].n - 2, from) ELSE -1

\* the split point splitLongMessage chooses: paragraph break, newline,
\* sentence end (the texts carry no sentence punctuation, so the match is
\* null), space, hard cut
SplitIndex(remaining, maxLen) ==
    LET retry(i) == i = -1 \/ 2 * i < maxLen
        para == LastIndexOfBlank(remaining, maxLen, 0)
        line == IF retry(para) THEN LastIndexOf(remaining, "nl", maxLen, 0) ELSE para
        sentence == IF retry(line) THEN -1 ELSE line
        space == IF retry(sentence) THEN LastIndexOf(remaining, "sp", maxLen, 0) ELSE sentence
    IN  IF space = -1 THEN maxLen ELSE space

RECURSIVE splitLongMessage(_, _)
splitLongMessage(text, maxLen) ==
    IF TLen(text) > maxLen
    THEN LET splitIndex == SplitIndex(text, maxLen)
         IN  <<Trim(Take(text, splitIndex))>>
             \o splitLongMessage(Trim(Drop(text, splitIndex)), maxLen)
    ELSE IF TLen(text) > 0 THEN <<text>> ELSE <<>>

\* cleanedText.split(MESSAGE_BREAK): a run of two or more newlines holds a
\* break; what is left of the run lands at the edge of a piece, where trim
\* removes it
RECURSIVE SplitBreak(_, _)
SplitBreak(t, piece) ==
    IF t = <<>> THEN <<piece>>
    ELSE IF t[1].c = "nl" /\ t[1].n >= 2
         THEN <<piece>> \o SplitBreak(Tail(t), <<>>)
         ELSE SplitBreak(Tail(t), Append(piece, t[1]))

parseResponse(text) ==
    LET cleanedText == Norm(SelectSeq(text, LAMBDA r : r.c # "file"))
        pieces == SplitBreak(cleanedText, <<>>)
        trimmed == [i \in 1..Len(pieces) |-> Trim(pieces[i])]
        messages == SelectSeq(trimmed, LAMBDA m : TLen(m) > 0)
    IN  [messages |-> IF Len(messages) = 1 /\ TLen(messages[1]) > MAX_MESSAGE_LENGTH
                      THEN splitLongMessage(messages[1], MAX_MESSAGE_LENGTH)
                      ELSE messages,
         artifacts |-> Len(SelectSeq(text, LAMBDA r : r.c = "file"))]

SplitInit ==
    /\ parentLog = <<>> /\ threadLog = <<>> /\ hasParent = FALSE
    /\ asmPc = "init" /\ asmMode = "none" /\ context = <<>> /\ conversation = <<>>
    /\ JobIdle
    /\ CsIdle
    /\ fnPc = "text"
    /\ fnIn \in Texts
    /\ fnMem = <<>>
    /\ fnOut = <<>>

\* post-response parses the remainder of the model's output
SplitParse ==
    /\ fnPc = "text"
    /\ fnOut' = parseResponse(fnIn).messages
    /\ fnMem' = parseResponse(fnIn).artifacts
    /\ fnPc' = "parsed"
    /\ UNCHANGED <<asmVars, jobVars, csVars, fnIn>>

\* sendLongMessage splits a summary or a post
SplitLong ==
    /\ fnPc = "text"
    /\ \A i \in 1..Len(fnIn) : fnIn[i].c # "file"
    /\ fnOut' = splitLongMessage(fnIn, MAX_MESSAGE_LENGTH)
    /\ fnPc' = "split"
    /\ UNCHANGED <<asmVars, jobVars, csVars, fnIn, fnMem>>

SplitNext == SplitParse \/ SplitLong

SpecSplit == SplitInit /\ [][SplitNext]_vars

\* C24: no part emitted by parseResponse or by splitLongMessage is longer
\* than MAX_MESSAGE_LENGTH, and none is empty.
C24_PartsWithinBudgetAndNonEmpty ==
    fnPc \in {"parsed", "split"} =>
        \A i \in 1..Len(fnOut) :
            TLen(fnOut[i]) > 0 /\ TLen(fnOut[i]) <= MAX_MESSAGE_LENGTH

\* --- withCaching ---------------------------------------------------------------

Roles == {"user", "assistant"}

\* the conversations handed to withCaching: turn i has content i, unmarked
Conversations ==
    {[i \in 1..Len(rs) |-> [role |-> rs[i], content |-> i, cache_control |-> FALSE]] :
        rs \in UNION {[1..k -> Roles] : k \in 0..MaxTurns}}

\* Array.prototype.findLastIndex, 0-based, over the indices below `limit`
FindLastIndex(messages, role, limit) ==
    LET hits == {i \in 0..(Min(limit, Len(messages)) - 1) : messages[i + 1].role = role}
    IN  IF hits = {} THEN -1 ELSE SetMax(hits)

\* markCached: the last part of the turn's content gets cache_control
markCached(msg) == [msg EXCEPT !.cache_control = TRUE]

\* the writes withCaching makes: `result` is what it returns, `messages` what
\* the caller's array holds afterwards (the turns are copied before any is
\* marked, and markCached replaces the copy's content array)
withCaching_LastMessageOnly(messages) ==
    [result |-> [i \in 1..Len(messages) |->
                    IF i = Len(messages) THEN markCached(messages[i]) ELSE messages[i]],
     messages |-> messages]

withCaching_InPlace(messages) ==
    LET lastUser == FindLastIndex(messages, "user", Len(messages))
        lastAssistant == FindLastIndex(messages, "assistant", Len(messages))
        anchorUser == IF lastAssistant > 0
                      THEN FindLastIndex(messages, "user", lastAssistant) ELSE -1
        marked == [i \in 1..Len(messages) |->
                      IF i - 1 = lastUser \/ (anchorUser >= 0 /\ i - 1 = anchorUser)
                      THEN markCached(messages[i]) ELSE messages[i]]
    IN  [result |-> marked, messages |-> marked]

withCaching(messages) ==
    IF Len(messages) = 0 THEN [result |-> messages, messages |-> messages]
    ELSE LET lastUser == FindLastIndex(messages, "user", Len(messages))
             lastAssistant == FindLastIndex(messages, "assistant", Len(messages))
             anchorUser == IF lastAssistant > 0
                           THEN FindLastIndex(messages, "user", lastAssistant) ELSE -1
         IN  [result |->
                 [i \in 1..Len(messages) |->
                     IF \/ lastUser >= 0 /\ i - 1 = lastUser
                        \/ anchorUser >= 0 /\ anchorUser # lastUser /\ i - 1 = anchorUser
                     THEN markCached(messages[i]) ELSE messages[i]],
              messages |-> messages]

CacheInit ==
    /\ parentLog = <<>> /\ threadLog = <<>> /\ hasParent = FALSE
    /\ asmPc = "init" /\ asmMode = "none" /\ context = <<>> /\ conversation = <<>>
    /\ JobIdle
    /\ CsIdle
    /\ fnPc = "assembled"
    /\ fnIn \in Conversations
    /\ fnMem = <<>>
    /\ fnOut = <<>>

\* processChat: `const conversation = withCaching(...)`
CacheApply ==
    /\ fnPc = "assembled"
    /\ fnOut' = withCaching(fnIn).result
    /\ fnIn' = withCaching(fnIn).messages
    /\ fnMem' = fnIn
    /\ fnPc' = "cached"
    /\ UNCHANGED <<asmVars, jobVars, csVars>>

CacheNext == CacheApply

SpecCache == CacheInit /\ [][CacheNext]_vars

\* the turns the claim names, 1-based: the most recent user turn, and the
\* most recent user turn before the most recent assistant turn
ClaimedBreakpoints(messages) ==
    LET users == {i \in 1..Len(messages) : messages[i].role = "user"}
        assistants == {i \in 1..Len(messages) : messages[i].role = "assistant"}
        before == IF assistants = {} THEN {}
                  ELSE {i \in users : i < SetMax(assistants)}
    IN  (IF users = {} THEN {} ELSE {SetMax(users)})
        \cup (IF before = {} THEN {} ELSE {SetMax(before)})

-----------------------------------------------------------------------------
\* getOAuthPayloadsFromMessages (claude.ts): two jobs of different channels
\* resolving their tool-server credentials in one isolate.  The pattern
\* MCP_OAUTH_BLOB_PATTERN is a module-level RegExp with the g flag: its
\* lastIndex is the one piece of state both jobs read and write.

MaxContent == 2
MaxOAuthMessages == 2

OAuthJobs == {1, 2}

\* A message content, one unit per position: "o" is one match of
\* MCP_OAUTH_BLOB_PATTERN (a `-# mcp-oauth: <blob>` line), "x" any other text.
ContentChars == {"x", "o"}
Contents == UNION {[1..n -> ContentChars] : n \in 0..MaxContent}
MessageLists == UNION {[1..n -> Contents] : n \in 1..MaxOAuthMessages}

\* MCP_OAUTH_BLOB_PATTERN.exec(content): the first match at or after
\* lastIndex; lastIndex becomes the end of the match, or 0 when there is none.
exec(content, lastIndex) ==
    LET hits == {i \in (lastIndex + 1)..Len(content) : content[i] = "o"}
    IN  IF hits = {}
        THEN [found |-> FALSE, at |-> 0, lastIndex |-> 0]
        ELSE LET i == CHOOSE h \in hits : \A g \in hits : h <= g
             IN  [found |-> TRUE, at |-> i, lastIndex |-> i]

\* The for loop from message i up to its next await: each message resets
\* lastIndex and is searched; the first match suspends the job on
\* decryptOAuthPayload.
RECURSIVE ScanFrom(_, _, _)
ScanFrom(messages, i, lastIndex) ==
    IF i > Len(messages)
    THEN [pc |-> "done", msg |-> i, at |-> 0, lastIndex |-> lastIndex]
    ELSE LET r == exec(messages[i], 0)
         IN  IF r.found
             THEN [pc |-> "await", msg |-> i, at |-> r.at, lastIndex |-> r.lastIndex]
             ELSE ScanFrom(messages, i + 1, r.lastIndex)

OAuthInit ==
    /\ parentLog = <<>> /\ threadLog = <<>> /\ hasParent = FALSE
    /\ asmPc = "init" /\ asmMode = "none" /\ context = <<>> /\ conversation = <<>>
    /\ JobIdle
    /\ CsIdle
    /\ fnPc = [j \in OAuthJobs |-> [pc |-> "start", msg |-> 1, at |-> 0]]
    /\ fnIn \in [OAuthJobs -> MessageLists]
    /\ fnMem = 0
    /\ fnOut = [j \in OAuthJobs |-> {}]

\* Job j enters getOAuthPayloadsFromMessages and runs to its first await.
OAuthStart(j) ==
    /\ fnPc[j].pc = "start"
    /\ LET s == ScanFrom(fnIn[j], 1, fnMem)
       IN  /\ fnPc' = [fnPc EXCEPT ![j] = [pc |-> s.pc, msg |-> s.msg, at |-> s.at]]
           /\ fnMem' = s.lastIndex
    /\ UNCHANGED <<asmVars, jobVars, csVars, fnIn, fnOut>>

\* decryptOAuthPayload resolves for job j: the payload is stored in the job's
\* map, and the while loop calls exec again on the same content, from
\* whatever lastIndex now holds.
OAuthResume(j) ==
    /\ fnPc[j].pc = "await"
    /\ fnOut' = [fnOut EXCEPT ![j] = @ \cup {<<fnPc[j].msg, fnPc[j].at>>}]
    /\ LET r == exec(fnIn[j][fnPc[j].msg], fnMem)
           s == IF r.found
                THEN [pc |-> "await", msg |-> fnPc[j].msg, at |-> r.at,
                      lastIndex |-> r.lastIndex]
                ELSE ScanFrom(fnIn[j], fnPc[j].msg + 1, r.lastIndex)
       IN  /\ fnPc' = [fnPc EXCEPT ![j] = [pc |-> s.pc, msg |-> s.msg, at |-> s.at]]
           /\ fnMem' = s.lastIndex
    /\ UNCHANGED <<asmVars, jobVars, csVars, fnIn>>

OAuthNext == \E j \in OAuthJobs : OAuthStart(j) \/ OAuthResume(j)

SpecOAuth == OAuthInit /\ [][OAuthNext]_vars

\* C30: two jobs of different channels share no mutable state: the value a
\* job reads when it resumes (here lastIndex, read by exec) is the one the
\* job itself wrote before it was suspended, whatever the other job did in
\* between.
C30_NoWriteOfOneJobReadByOther ==
    \A j \in OAuthJobs : fnPc[j].pc = "await" => fnMem = fnPc[j].at

\* What the interference costs: a job that has finished has collected every
\* credential blob of its messages.
AllBlobs(messages) ==
    {p \in (1..MaxOAuthMessages) \X (1..MaxContent) :
        /\ p[1] <= Len(messages) /\ p[2] <= Len(messages[p[1]])
        /\ messages[p[1]][p[2]] = "o"}

OAuthPayloadsComplete ==
    \A j \in OAuthJobs : fnPc[j].pc = "done" => fnOut[j] = AllBlobs(fnIn[j])


-----------------------------------------------------------------------------
\* processSummarize on a channel that other authors post to, followed by
\* the context retrieval of later jobs on the same channel.

\* what the channel's other authors post while the job runs and afterwards
PostTypes == EntryTypes \ {"S"}

AppendEntry(log, t) ==
    Append(log, [ch |-> "parent", id |-> 1 + Size(log), bot |-> EntryBot(t),
                 kind |-> EntryKind(t), n |-> EntryCount(t)])

\* post-response of processSummarize: sendLongMessage posts the marker and
\* the summary in one message, or in two when they exceed
\* MAX_MESSAGE_LENGTH; then the usage line; then the placeholder is deleted.
SummaryPosts == {<<"S", "M">>, <<"S", "B", "M">>}

SumInit ==
    /\ parentLog \in {MkLog(ts, "parent") : ts \in TypeSeqs(1)}
    /\ threadLog = <<>> /\ hasParent = TRUE
    /\ asmPc = "init" /\ asmMode = "none" /\ context = <<>> /\ conversation = <<>>
    /\ JobIdle
    /\ CsIdle
    /\ fnPc = "fetch-messages"
    /\ fnIn = <<>>
    /\ fnMem = <<>>
    /\ fnOut = 0

\* somebody posts to the channel
ChannelPost ==
    /\ Len(parentLog) < MaxChannel
    /\ \E t \in PostTypes : parentLog' = AppendEntry(parentLog, t)
    /\ UNCHANGED <<threadLog, hasParent, asmPc, asmMode, context, conversation,
                   jobVars, csVars, fnVars>>

\* step fetch-messages
SumFetch ==
    /\ fnPc = "fetch-messages"
    /\ fnIn' = getChannelContext(parentLog)
    /\ fnPc' = "call-claude"
    /\ UNCHANGED <<asmVars, jobVars, csVars, fnMem, fnOut>>

\* step call-claude: the model's summary, short or long
SumCall ==
    /\ fnPc = "call-claude"
    /\ fnMem' \in SummaryPosts
    /\ fnPc' = "post-response"
    /\ UNCHANGED <<asmVars, jobVars, csVars, fnIn, fnOut>>

\* step post-response, one sendMessage at a time
SumSend ==
    /\ fnPc = "post-response" /\ fnMem # <<>>
    /\ Len(parentLog) < MaxChannel + 3
    /\ parentLog' = AppendEntry(parentLog, Head(fnMem))
    /\ fnMem' = Tail(fnMem)
    /\ fnOut' = IF Head(fnMem) = "S" THEN 1 + Size(parentLog) ELSE fnOut
    /\ UNCHANGED <<threadLog, hasParent, asmPc, asmMode, context, conversation,
                   jobVars, csVars, fnPc, fnIn>>

\* a sendMessage of post-response throws: the step has no retry options
SumSendFails ==
    /\ fnPc = "post-response" /\ fnMem # <<>>
    /\ fnPc' = "failed"
    /\ UNCHANGED <<asmVars, jobVars, csVars, fnIn, fnMem, fnOut>>

\* deleteOriginalResponse, and the job has completed
SumDone ==
    /\ fnPc = "post-response" /\ fnMem = <<>>
    /\ fnPc' = "done"
    /\ UNCHANGED <<asmVars, jobVars, csVars, fnIn, fnMem, fnOut>>

\* a later job on the channel retrieves its context
LaterFetch ==
    /\ fnPc = "done"
    /\ context' = getChannelContext(parentLog)
    /\ asmMode' = "channel"
    /\ asmPc' = "fetched"
    /\ UNCHANGED <<parentLog, threadLog, hasParent, conversation, jobVars, csVars, fnVars>>

SumNext ==
    \/ ChannelPost \/ SumFetch \/ SumCall \/ SumSend \/ SumSendFails \/ SumDone
    \/ LaterFetch

SpecSummary == SumInit /\ [][SumNext]_vars

\* the step in which a later job retrieves its context
LaterFetched == fnPc = "done" /\ parentLog' = parentLog /\ asmPc' = "fetched"

-----------------------------------------------------------------------------
\* branch.ts: "Branch from here" on a message of a channel, followed by the
\* context retrieval of a job that runs on the branch.

\* `Branched from <link to message>`: the first message of the new thread
BranchMarker == [ch |-> "thread", id |-> 1, bot |-> TRUE, kind |-> "branch", n |-> 1]

BranchPostTypes == {"U", "B", "M"}

BranchInit ==
    /\ parentLog \in {MkLog(ts, "parent") :
                        ts \in UNION {[1..j -> BranchPostTypes] : j \in 1..2}}
    /\ threadLog = <<>> /\ hasParent = TRUE
    /\ asmPc = "init" /\ asmMode = "none" /\ context = <<>> /\ conversation = <<>>
    /\ JobIdle
    /\ CsIdle
    /\ fnPc = "channel"
    /\ fnIn = 0
    /\ fnMem = <<>>
    /\ fnOut = <<>>

\* handleBranchCommand on target message k of the channel: the starter
\* message is posted to the channel, the thread is created from it, the
\* marker is posted to the thread, and the channel is notified.
BranchFromHere ==
    /\ fnPc = "channel"
    /\ \E k \in Ids(parentLog, "parent") : fnIn' = k
    /\ parentLog' = AppendEntry(AppendEntry(parentLog, "B"), "B")
    /\ threadLog' = <<BranchMarker>>
    /\ fnPc' = "branched"
    /\ UNCHANGED <<hasParent, asmPc, asmMode, context, conversation,
                   jobVars, csVars, fnMem, fnOut>>

\* the conversation goes on in the channel
BranchParentPost ==
    /\ asmPc = "init"
    /\ Len(parentLog) < MaxChannel
    /\ \E t \in BranchPostTypes : parentLog' = AppendEntry(parentLog, t)
    /\ UNCHANGED <<threadLog, hasParent, asmPc, asmMode, context, conversation,
                   jobVars, csVars, fnVars>>

\* and in the branch
BranchThreadPost ==
    /\ asmPc = "init" /\ fnPc = "branched"
    /\ Len(threadLog) < MaxLog
    /\ \E t \in BranchPostTypes :
          threadLog' = Append(threadLog,
                              [ch |-> "thread", id |-> 1 + Size(threadLog),
                               bot |-> EntryBot(t), kind |-> EntryKind(t),
                               n |-> EntryCount(t)])
    /\ UNCHANGED <<parentLog, hasParent, asmPc, asmMode, context, conversation,
                   jobVars, csVars, fnVars>>

\* a job on the branch: fetchContext(channelId, true)
BranchFetch == fnPc = "branched" /\ AsmFetchThread

BranchNext ==
    \/ BranchFromHere \/ BranchParentPost \/ BranchThreadPost
    \/ BranchFetch \/ (fnPc = "branched" /\ AsmConvert)

SpecBranch == BranchInit /\ [][BranchNext]_vars

\* C32: the context of a log with a branch marker is the parent log up to and
\* including the branch-point message, followed by the branch's own messages
\* without its scaffolding.
C32_BranchContextTruncatedAtBranchPoint ==
    asmPc \in {"fetched", "converted"} =>
        context = SelectSeq(getChannelContext(parentLog), LAMBDA m : m.id <= fnIn)
                  \o SelectSeq(threadLog, LAMBDA m : m.kind # "branch")


-----------------------------------------------------------------------------
\* formatUsageInfo (workflow.ts): the usage line posted after a response.

ModelTiers == {"haiku", "sonnet", "opus"}

\* PRICING, dollars per million tokens, times ten
PRICING ==
    [haiku  |-> [in |-> 10, out |-> 50,  cacheRead |-> 1, cacheWrite |-> 20],
     sonnet |-> [in |-> 30, out |-> 150, cacheRead |-> 3, cacheWrite |-> 60],
     opus   |-> [in |-> 50, out |-> 250, cacheRead |-> 5, cacheWrite |-> 100]]

ReportFields == {"input_tokens", "output_tokens", "cache_creation_input_tokens",
                 "cache_read_input_tokens"}

\* a usage field as the model client returns it: absent, or a count
TokenCounts == {0, 5, 10, 1000}
ReportUsages == [ReportFields -> {Absent} \cup [kind : {"num"}, v : TokenCounts]]

\* `(usage.f as number) || 0`
TokensOf(u, f) == IF u[f] = Absent THEN 0 ELSE u[f].v

\* Number.prototype.toFixed(4) of a cost held in 1e-7 dollars, in 1e-4
\* dollars; tieUp says which way the binary value of an exact half falls
toFixed4(cost, tieUp) ==
    LET whole == cost \div 1000
        rest == cost % 1000
    IN  IF rest > 500 \/ (rest = 500 /\ tieUp) THEN whole + 1 ELSE whole

\* the cache-read count is priced at the cache-write rate and conversely
formatUsageInfo_SwapsCacheRates(u, modelTier, tieUp) ==
    LET inputTokens == TokensOf(u, "input_tokens")
        outputTokens == TokensOf(u, "output_tokens")
        cacheCreationTokens == TokensOf(u, "cache_creation_input_tokens")
        cacheReadTokens == TokensOf(u, "cache_read_input_tokens")
        p == PRICING[modelTier]
        totalCost == inputTokens * p.in + outputTokens * p.out
                     + cacheReadTokens * p.cacheWrite + cacheCreationTokens * p.cacheRead
        totalTokens == inputTokens + outputTokens + cacheReadTokens + cacheCreationTokens
    IN  [model |-> modelTier, total |-> totalTokens, in |-> inputTokens,
         out |-> outputTokens,
         cache |-> IF cacheReadTokens > 0 \/ cacheCreationTokens > 0
                   THEN <<cacheReadTokens, cacheCreationTokens>> ELSE <<>>,
         dollars |-> toFixed4(totalCost, tieUp)]

\* the parts of the usage line
formatUsageInfo(u, modelTier, tieUp) ==
    LET inputTokens == TokensOf(u, "input_tokens")
        outputTokens == TokensOf(u, "output_tokens")
        cacheCreationTokens == TokensOf(u, "cache_creation_input_tokens")
        cacheReadTokens == TokensOf(u, "cache_read_input_tokens")
        p == PRICING[modelTier]
        totalCost == inputTokens * p.in + outputTokens * p.out
                     + cacheReadTokens * p.cacheRead + cacheCreationTokens * p.cacheWrite
        totalTokens == inputTokens + outputTokens + cacheReadTokens + cacheCreationTokens
    IN  [model |-> modelTier, total |-> totalTokens, in |-> inputTokens,
         out |-> outputTokens,
         cache |-> IF cacheReadTokens > 0 \/ cacheCreationTokens > 0
                   THEN <<cacheReadTokens, cacheCreationTokens>> ELSE <<>>,
         dollars |-> toFixed4(totalCost, tieUp)]

ReportInit ==
    /\ parentLog = <<>> /\ threadLog = <<>> /\ hasParent = FALSE
    /\ asmPc = "init" /\ asmMode = "none" /\ context = <<>> /\ conversation = <<>>
    /\ JobIdle
    /\ CsIdle
    /\ fnPc = "first"
    /\ fnIn \in [usage : ReportUsages, tier : ModelTiers, tieUp : BOOLEAN]
    /\ fnMem = <<>>
    /\ fnOut = <<>>

\* the report of a response's usage
ReportFirst ==
    /\ fnPc = "first"
    /\ fnMem' = formatUsageInfo(fnIn.usage, fnIn.tier, fnIn.tieUp)
    /\ fnPc' = "second"
    /\ UNCHANGED <<asmVars, jobVars, csVars, fnIn, fnOut>>

\* the same usage reported once more
ReportSecond ==
    /\ fnPc = "second"
    /\ fnOut' = formatUsageInfo(fnIn.usage, fnIn.tier, fnIn.tieUp)
    /\ fnPc' = "reported"
    /\ UNCHANGED <<asmVars, jobVars, csVars, fnIn, fnMem>>

ReportNext == ReportFirst \/ ReportSecond

SpecReport == ReportInit /\ [][ReportNext]_vars

\* the four categories: the usage field that counts them, their rate
Categories ==
    <<[field |-> "input_tokens", rate |-> "in"],
      [field |-> "output_tokens", rate |-> "out"],
      [field |-> "cache_read_input_tokens", rate |-> "cacheRead"],
      [field |-> "cache_creation_input_tokens", rate |-> "cacheWrite"]>>

RECURSIVE SeqSum(_)
SeqSum(s) == IF s = <<>> THEN 0 ELSE Head(s) + SeqSum(Tail(s))

-----------------------------------------------------------------------------
\* readToolStream's processLine (commands.ts), event by event: the partial
\* block `current` and the round's completed blocks.

\* The lines of one round: content_block_start of a text block, a tool_use
\* block or a block of another type; content_block_delta with a text_delta
\* or an input_json_delta (whose piece keeps the accumulated JSON parsable
\* or not); content_block_stop; and any other line (another event type, a
\* comment, [DONE], JSON that does not parse).
StreamEvents ==
    [type : {"content_block_start"}, block : {"text", "tool_use", "other"}, ok : {TRUE}]
    \cup [type : {"content_block_delta"}, block : {"text_delta"}, ok : {TRUE}]
    \cup [type : {"content_block_delta"}, block : {"input_json_delta"}, ok : BOOLEAN]
    \cup [type : {"content_block_stop", "other"}, block : {"none"}, ok : {TRUE}]

EventSeqs == UNION {[1..n -> StreamEvents] : n \in 1..MaxEvents}

\* `current = null`
NoBlock == [type |-> "none", text |-> <<>>, id |-> 0, inputJson |-> <<>>]

\* JSON.parse(current.inputJson || "{}") returns
Parses(inputJson) == \A k \in 1..Len(inputJson) : inputJson[k].ok

\* case "content_block_start"; k is the position of the event in the round
OnStart(st, ev, k) ==
    [st EXCEPT !.current =
        IF ev.block = "text" THEN [NoBlock EXCEPT !.type = "text"]
        ELSE IF ev.block = "tool_use" THEN [NoBlock EXCEPT !.type = "tool_use", !.id = k]
        ELSE NoBlock]

\* every delta is forwarded to the caller
OnDelta_ForwardsAll(st, ev, k) ==
    IF st.current = NoBlock THEN st
    ELSE IF ev.block = "text_delta" /\ st.current.type = "text"
    THEN [st EXCEPT !.current.text = Append(@, k), !.forwarded = Append(@, k)]
    ELSE IF ev.block = "input_json_delta" /\ st.current.type = "tool_use"
    THEN [st EXCEPT !.current.inputJson = Append(@, [at |-> k, ok |-> ev.ok]),
                    !.forwarded = Append(@, k)]
    ELSE st

\* case "content_block_delta"
OnDelta(st, ev, k) ==
    IF st.current = NoBlock THEN st
    ELSE IF ev.block = "text_delta" /\ st.current.type = "text"
    THEN [st EXCEPT !.current.text = Append(@, k), !.forwarded = Append(@, k)]
    ELSE IF ev.block = "input_json_delta" /\ st.current.type = "tool_use"
    THEN [st EXCEPT !.current.inputJson = Append(@, [at |-> k, ok |-> ev.ok])]
    ELSE st

\* the finished block as it is pushed to contentBlocks
Finished(c) ==
    IF c.type = "text" THEN [type |-> "text", text |-> c.text, id |-> 0, input |-> <<>>]
    ELSE [type |-> "tool_use", text |-> <<>>, id |-> c.id, input |-> c.inputJson]

\* case "content_block_stop"
OnStop(st) ==
    IF st.current = NoBlock THEN st
    ELSE IF st.current.type = "text" \/ Parses(st.current.inputJson)
    THEN [st EXCEPT !.contentBlocks = Append(@, Finished(st.current)), !.current = NoBlock]
    ELSE [st EXCEPT !.current = NoBlock]

processLine(st, ev, k) ==
    CASE ev.type = "content_block_start" -> OnStart(st, ev, k)
      [] ev.type = "content_block_delta" -> OnDelta(st, ev, k)
      [] ev.type = "content_block_stop"  -> OnStop(st)
      [] OTHER -> st

BlocksInit ==
    /\ parentLog = <<>> /\ threadLog = <<>> /\ hasParent = FALSE
    /\ asmPc = "init" /\ asmMode = "none" /\ context = <<>> /\ conversation = <<>>
    /\ JobIdle
    /\ CsIdle
    /\ fnPc = 1
    /\ fnIn \in EventSeqs
    /\ fnMem = [current |-> NoBlock, contentBlocks |-> <<>>, forwarded |-> <<>>]
    /\ fnOut = <<>>

\* `for (const line of lines) await processLine(line);`
BlocksLine ==
    /\ fnPc \in 1..Len(fnIn)
    /\ fnMem' = processLine(fnMem, fnIn[fnPc], fnPc)
    /\ fnPc' = fnPc + 1
    /\ UNCHANGED <<asmVars, jobVars, csVars, fnIn, fnOut>>

\* the body has ended: readToolStream returns the completed blocks
BlocksReturn ==
    /\ fnPc = Len(fnIn) + 1
    /\ fnOut' = fnMem.contentBlocks
    /\ fnPc' = 0
    /\ UNCHANGED <<asmVars, jobVars, csVars, fnIn, fnMem>>

BlocksNext == BlocksLine \/ BlocksReturn

SpecBlocks == BlocksInit /\ [][BlocksNext]_vars

\* what one line does to the open block, the completed blocks and the text
\* forwarded to the caller; appendsAlways: every stop of an open block
\* appends it
LineEffect(appendsAlways) ==
    LET ev == fnIn[fnPc]
        cur == fnMem.current
        open == cur # NoBlock
        matches == \/ ev.block = "text_delta" /\ cur.type = "text"
                   \/ ev.block = "input_json_delta" /\ cur.type = "tool_use"
    IN  /\ fnMem'.current.type \in {"none", "text", "tool_use"}
        /\ ev.type = "content_block_start" =>
              /\ fnMem'.current.type = (IF ev.block = "other" THEN "none" ELSE ev.block)
              /\ fnMem'.current.text = <<>> /\ fnMem'.current.inputJson = <<>>
              /\ fnMem'.contentBlocks = fnMem.contentBlocks
        /\ ev.type = "content_block_delta" =>
              /\ fnMem'.contentBlocks = fnMem.contentBlocks
              /\ fnMem'.current.type = cur.type
              /\ (~open \/ ~matches) => fnMem'.current = cur
              /\ (open /\ matches) =>
                    Len(fnMem'.current.text) + Len(fnMem'.current.inputJson)
                      = Len(cur.text) + Len(cur.inputJson) + 1
        /\ ev.type = "content_block_stop" =>
              /\ fnMem'.current = NoBlock
              /\ ~open => fnMem'.contentBlocks = fnMem.contentBlocks
              /\ (open /\ (appendsAlways \/ cur.type = "text" \/ Parses(cur.inputJson))) =>
                    fnMem'.contentBlocks = Append(fnMem.contentBlocks, Finished(cur))
              /\ (open /\ cur.type = "tool_use" /\ ~Parses(cur.inputJson) /\ ~appendsAlways) =>
                    fnMem'.contentBlocks = fnMem.contentBlocks
        /\ ev.type = "other" => fnMem' = fnMem
        /\ fnMem'.forwarded =
              IF ev.type = "content_block_delta" /\ ev.block = "text_delta"
                 /\ cur.type = "text"
              THEN Append(fnMem.forwarded, fnPc) ELSE fnMem.forwarded

\* the step in which processLine handles the next line
LineRead == fnPc >= 1 /\ fnPc <= Len(fnIn) /\ fnPc' = fnPc + 1

\* C34: one block is open at a time; a block-start opens a text or tool_use
\* block and nothing else; a delta changes only the open block and only when
\* its kind matches; deltas and stops without an open block are ignored; each
\* block-stop appends the finished block in stop order and leaves none open;
\* only text deltas are forwarded.
C34_BlockStateMachine ==
    [][LineRead => LineEffect(TRUE)]_vars

\* C34, amended: a tool_use block whose accumulated input does not parse is
\* not appended when it stops.
C34_BlockStateMachineDropsUnparsable ==
    [][LineRead => LineEffect(FALSE)]_vars

\* a tool_use block with unparsable input is dropped, the text block after it
\* is completed
C34_Witness ==
    /\ fnPc = 0
    /\ Len(fnOut) = 1 /\ fnOut[1].type = "text"
    /\ \E k \in 2..(Len(fnIn) - 1) :
          /\ fnIn[k - 1].type = "content_block_start" /\ fnIn[k - 1].block = "tool_use"
          /\ fnIn[k].block = "input_json_delta" /\ ~fnIn[k].ok
          /\ fnIn[k + 1].type = "content_block_stop"


-----------------------------------------------------------------------------
\* post-response of a chat job whose stream was not aborted: the remainder
\* text.slice(sentUpTo) is parsed and delivered.

DeliverInit ==
    /\ parentLog = <<>> /\ threadLog = <<>> /\ hasParent = FALSE
    /\ asmPc = "init" /\ asmMode = "none" /\ context = <<>> /\ conversation = <<>>
    /\ JobIdle
    /\ CsIdle
    /\ fnPc = "remainder"
    /\ fnIn \in Texts
    /\ fnMem = <<>>
    /\ fnOut = [plain |-> 0, withFiles |-> 0, usage |-> 0]

\* `const { messages: msgParts, artifacts } = parseResponse(remainder);`
DeliverParse ==
    /\ fnPc = "remainder"
    /\ fnMem' = [msgParts |-> parseResponse(fnIn).messages,
                 artifacts |-> parseResponse(fnIn).artifacts]
    /\ fnPc' = "parts"
    /\ UNCHANGED <<asmVars, jobVars, csVars, fnIn, fnOut>>

\* one pass of `for (const [i, part] of msgParts.entries())`
DeliverPart ==
    /\ fnPc = "parts" /\ fnMem.msgParts # <<>>
    /\ LET isLast == Len(fnMem.msgParts) = 1
       IN  fnOut' = IF isLast /\ fnMem.artifacts > 0
                    THEN [fnOut EXCEPT !.withFiles = @ + 1]
                    ELSE [fnOut EXCEPT !.plain = @ + 1]
    /\ fnMem' = [fnMem EXCEPT !.msgParts = Tail(@)]
    /\ UNCHANGED <<asmVars, jobVars, csVars, fnPc, fnIn>>

\* a send of the step throws: the step fails
DeliverFails ==
    /\ fnPc = "parts"
    /\ fnPc' = "failed"
    /\ UNCHANGED <<asmVars, jobVars, csVars, fnIn, fnMem, fnOut>>

\* after the loop: the usage line, then the placeholder is deleted
DeliverUsage ==
    /\ fnPc = "parts" /\ fnMem.msgParts = <<>>
    /\ fnOut' = [fnOut EXCEPT !.usage = @ + 1]
    /\ fnPc' = "delivered"
    /\ UNCHANGED <<asmVars, jobVars, csVars, fnIn, fnMem>>

DeliverNext == DeliverParse \/ DeliverPart \/ DeliverFails \/ DeliverUsage

SpecDeliver == DeliverInit /\ [][DeliverNext]_vars

\* C36: when final delivery has extracted file artifacts, they are sent to the
\* channel exactly once, also when the remainder yields no message part.
C36_ArtifactsSentOnce ==
    (fnPc = "delivered" /\ fnMem.artifacts > 0) => fnOut.withFiles = 1


-----------------------------------------------------------------------------
\* onUpdate of processChat at the level of the text: the model's output
\* arrives run by run, onUpdate posts what a message break has closed, and
\* post-response parses the remainder.

\* the end of the last MESSAGE_BREAK match in t, whose first character has
\* index off; 0 when there is none
RECURSIVE LastBreakEnd(_, _)
LastBreakEnd(t, off) ==
    IF t = <<>> THEN 0
    ELSE LET later == LastBreakEnd(Tail(t), off + t[1].n)
         IN  IF later # 0 THEN later
             ELSE IF t[1].c = "nl" /\ t[1].n >= 2 THEN off + 2 * (t[1].n \div 2)
             ELSE 0

\* the while loop of onUpdate: candidateEnd
candidateEndOf(accumulated, sentUpTo) ==
    LET end == LastBreakEnd(Drop(accumulated, sentUpTo), 0)
    IN  IF end = 0 THEN sentUpTo ELSE sentUpTo + end

\* accumulated.slice(sentUpTo, candidateEnd).trim()
PartOf(accumulated, sentUpTo, candidateEnd) ==
    Trim(Take(Drop(accumulated, sentUpTo), candidateEnd - sentUpTo))

IncrInit ==
    /\ parentLog = <<>> /\ threadLog = <<>> /\ hasParent = FALSE
    /\ asmPc = "init" /\ asmMode = "none" /\ context = <<>> /\ conversation = <<>>
    /\ JobIdle
    /\ CsIdle
    /\ fnPc = 0
    /\ fnIn \in Texts
    /\ fnMem = [sentUpTo |-> 0, posts |-> <<>>, aborted |-> FALSE]
    /\ fnOut = <<>>

\* the next run of the output arrives and onUpdate(accumulated) runs
IncrDelta ==
    /\ fnPc \in 0..(Len(fnIn) - 1)
    /\ ~fnMem.aborted
    /\ fnPc' = fnPc + 1
    /\ LET accumulated == SubSeq(fnIn, 1, fnPc + 1)
           candidateEnd == candidateEndOf(accumulated, fnMem.sentUpTo)
           part == PartOf(accumulated, fnMem.sentUpTo, candidateEnd)
       IN  IF candidateEnd <= fnMem.sentUpTo \/ TLen(part) < MIN_CHARS
           THEN fnMem' = fnMem
           ELSE \/ fnMem' = fnMem        \* too soon after the last post, or the send threw
                \/ fnMem' = [fnMem EXCEPT !.aborted = TRUE]    \* no placeholder
                \/ fnMem' = [fnMem EXCEPT !.sentUpTo = candidateEnd,
                                          !.posts = Append(@, part)]
    /\ UNCHANGED <<asmVars, jobVars, csVars, fnIn, fnOut>>

\* post-response: `parseResponse(text.slice(sentUpTo))`
IncrFinal ==
    /\ fnPc = Len(fnIn)
    /\ ~fnMem.aborted
    /\ fnOut' = parseResponse(Drop(fnIn, fnMem.sentUpTo))
    /\ fnPc' = -1
    /\ UNCHANGED <<asmVars, jobVars, csVars, fnIn, fnMem>>

IncrNext == IncrDelta \/ IncrFinal

SpecIncr == IncrInit /\ [][IncrNext]_vars

\* C37: no incremental post carries the text of a file-attachment block, and
\* every complete attachment block of the output is extracted as an artifact.
C37_AttachmentsNeverPostedAsBody ==
    /\ \A i \in 1..Len(fnMem.posts) :
          \A k \in 1..Len(fnMem.posts[i]) : fnMem.posts[i][k].c # "file"
    /\ fnPc = -1 =>
          fnOut.artifacts = Len(SelectSeq(fnIn, LAMBDA r : r.c = "file"))

\* ---------------------------------------------------------------------------
\* onUpdate with the answers of its two platform requests (workflow.ts:603-640)
\* The output is a sequence of paragraphs given by their lengths; every
\* paragraph but the last is followed by a message break, and each text delta
\* completes one paragraph.  fnPc = [got, phase, now], fnMem = the closure of
\* processChat, fnOut = how often each paragraph was posted.
ParaLens == {MIN_CHARS \div 2, MIN_CHARS}

Outputs == UNION {[1..n -> ParaLens] : n \in 1..MaxParas}

\* getOriginalResponse: the platform's answer, or fetch rejecting
LookupAnswers == {"ok", "404", "error", "throws"}

\* sendMessage: the platform's answer, or fetch rejecting
SendAnswers == {"ok", "error", "throws"}

\* length of accumulated.slice(sentUpTo, candidateEnd).trim(), in paragraphs
\* a+1..b joined by their breaks
RECURSIVE PartLength(_, _, _)
PartLength(out, a, b) ==
    IF b <= a THEN 0
    ELSE out[b] + (IF b - 1 > a THEN 2 + PartLength(out, a, b - 1) ELSE 0)

\* the paragraphs a+1..b are posted as messages
PostParas(posted, a, b) ==
    [i \in DOMAIN posted |-> IF i > a /\ i <= b THEN posted[i] + 1 ELSE posted[i]]

UpdInit ==
    /\ parentLog = <<>> /\ threadLog = <<>> /\ hasParent = FALSE
    /\ asmPc = "init" /\ asmMode = "none" /\ context = <<>> /\ conversation = <<>>
    /\ JobIdle
    /\ CsIdle
    /\ fnIn \in Outputs
    /\ fnPc = [got |-> 0, phase |-> "stream", now |-> MIN_INTERVAL_MS]
    /\ fnMem = [sentUpTo |-> 0, lastPostTime |-> 0, aborted |-> FALSE,
                gone |-> FALSE, failures |-> 0]
    /\ fnOut = [i \in 1..Len(fnIn) |-> 0]

\* a text delta completes the next paragraph; processLine awaits
\* onTextDelta -> onUpdate(accumulated) inside its try/catch
UpdDelta ==
    /\ fnPc.phase = "stream" /\ fnPc.got < Len(fnIn) /\ ~fnMem.aborted
    /\ \E tick \in {0, MIN_INTERVAL_MS} :
        LET got == fnPc.got + 1
            now == fnPc.now + tick
            candidateEnd == IF got < Len(fnIn) THEN got ELSE Len(fnIn) - 1
            quiet == \/ candidateEnd <= fnMem.sentUpTo
                     \/ PartLength(fnIn, fnMem.sentUpTo, candidateEnd) < MIN_CHARS
                     \/ now - fnMem.lastPostTime < MIN_INTERVAL_MS
        IN  /\ fnPc' = [fnPc EXCEPT !.got = got, !.now = now]
            /\ IF quiet
               THEN UNCHANGED <<fnMem, fnOut>>
               ELSE \E lookup \in LookupAnswers :
                      CASE lookup = "throws" ->      \* caught by processLine
                             /\ fnMem' = [fnMem EXCEPT !.failures = @ + 1]
                             /\ UNCHANGED fnOut
                        [] lookup = "404" ->         \* null: controller.abort()
                             /\ fnMem' = [fnMem EXCEPT !.aborted = TRUE, !.gone = TRUE]
                             /\ UNCHANGED fnOut
                        [] lookup = "error" ->       \* `if (!res.ok) return null`
                             /\ fnMem' = [fnMem EXCEPT !.aborted = TRUE,
                                                       !.failures = @ + 1]
                             /\ UNCHANGED fnOut
                        [] lookup = "ok" ->
                             \E send \in SendAnswers :
                                IF send = "ok"
                                THEN /\ fnOut' = PostParas(fnOut, fnMem.sentUpTo,
                                                           candidateEnd)
                                     /\ fnMem' = [fnMem EXCEPT
                                                    !.sentUpTo = candidateEnd,
                                                    !.lastPostTime = now]
                                ELSE /\ fnMem' = [fnMem EXCEPT !.failures = @ + 1]
                                     /\ UNCHANGED fnOut
    /\ UNCHANGED <<asmVars, jobVars, csVars, fnIn>>

\* the stream is done, or is left because the signal is aborted; call-claude
\* returns {text, usage, sentUpTo, lastPostTime, aborted}
UpdReturn ==
    /\ fnPc.phase = "stream"
    /\ fnPc.got = Len(fnIn) \/ fnMem.aborted
    /\ fnPc' = [fnPc EXCEPT !.phase = "post-response"]
    /\ UNCHANGED <<asmVars, jobVars, csVars, fnIn, fnMem, fnOut>>

\* post-response: `if (parsed.aborted) return;`, else the parts of
\* text.slice(sentUpTo) are sent in order; a sendMessage that throws fails the step
UpdFinal ==
    /\ fnPc.phase = "post-response"
    /\ IF fnMem.aborted
       THEN /\ fnPc' = [fnPc EXCEPT !.phase = "completed"]
            /\ UNCHANGED fnOut
       ELSE \E k \in fnMem.sentUpTo..Len(fnIn) :
               /\ fnOut' = PostParas(fnOut, fnMem.sentUpTo, k)
               /\ fnPc' = [fnPc EXCEPT !.phase = IF k = Len(fnIn) THEN "completed"
                                                                 ELSE "failed"]
    /\ UNCHANGED <<asmVars, jobVars, csVars, fnIn, fnMem>>

UpdNext == UpdDelta \/ UpdReturn \/ UpdFinal

SpecUpdate == UpdInit /\ [][UpdNext]_vars

UpdateFailed == fnMem'.failures > fnMem.failures

\* C39: when the placeholder lookup or the incremental post fails inside
\* onUpdate, the stream is not aborted, sentUpTo and lastPostTime keep their
\* values and the job goes on streaming without an error; and when the job
\* has completed after such a failure (the placeholder not having been
\* removed), every paragraph of the output has been posted.
C39_UpdateFailureHarmless ==
    /\ [][UpdateFailed =>
            /\ fnMem'.aborted = fnMem.aborted
            /\ fnMem'.sentUpTo = fnMem.sentUpTo
            /\ fnMem'.lastPostTime = fnMem.lastPostTime
            /\ fnPc'.phase = "stream"]_vars
    /\ []((fnPc.phase = "completed" /\ fnMem.failures > 0 /\ ~fnMem.gone)
            => \A i \in 1..Len(fnIn) : fnOut[i] >= 1)

\* ---------------------------------------------------------------------------
\* Messages that carry an encrypted OAuth payload (discord.ts:510-512,
\* claude.ts:813-821) and the conversation conversion.  A content is a
\* sequence of tokens: "-#" the subtext prefix, "sp" white space, "word" any
\* other text, "mcp-oauth:" the label, "blob" an encrypted payload.
\* fnPc counts the jobs that fetched their context.

\* `OAuth connected. -# mcp-oauth: ${blob}`
CallbackNotice == <<"word", "sp", "-#", "sp", "mcp-oauth:", "sp", "blob">>

\* `-# oauth refreshed · mcp-oauth: ${blob}`
RefreshNotice == <<"-#", "sp", "word", "sp", "mcp-oauth:", "sp", "blob">>

\* what users and other jobs post: text, white space, a usage line
OtherContents == {<<"word">>, <<"sp">>, <<"-#", "sp", "word">>, <<"sp", "-#", "word">>}

RECURSIVE TrimStartTokens(_)
TrimStartTokens(c) ==
    IF c # <<>> /\ c[1] = "sp" THEN TrimStartTokens(Tail(c)) ELSE c

\* the two filters of discordMessagesToLLMConversation, on the content:
\* `m.content?.trim()` is empty, `m.content?.trim().startsWith("-#")`
KindOfContent(c) ==
    LET t == TrimStartTokens(c)
    IN  IF t = <<>> THEN "empty"
        ELSE IF t[1] = "-#" THEN "meta"
        ELSE "text"

\* MCP_OAUTH_BLOB_PATTERN = /-# mcp-oauth:\s*([A-Za-z0-9_-]+)/g matches in c
HasOAuthBlob(c) ==
    \E k \in 1..(Len(c) - 4) :
        /\ c[k] = "-#" /\ c[k + 1] = "sp" /\ c[k + 2] = "mcp-oauth:"
        /\ c[k + 3] = "sp" /\ c[k + 4] = "blob"

PostContent(log, isBot, c) ==
    Append(log, [ch |-> "parent", id |-> 1 + Size(log), bot |-> isBot,
                 kind |-> KindOfContent(c), n |-> 1, content |-> c])

CredInit ==
    /\ parentLog = <<>> /\ threadLog = <<>> /\ hasParent = TRUE
    /\ asmPc = "init" /\ asmMode = "none" /\ context = <<>> /\ conversation = <<>>
    /\ JobIdle
    /\ CsIdle
    /\ fnPc = 0
    /\ fnIn = <<>>
    /\ fnMem = <<>>
    /\ fnOut = <<>>

\* a user or the bot posts something else to the channel
CredOtherPost ==
    /\ Len(parentLog) < MaxChannel
    /\ \E isBot \in BOOLEAN, c \in OtherContents :
          parentLog' = PostContent(parentLog, isBot, c)
    /\ UNCHANGED <<threadLog, hasParent, asmPc, asmMode, context, conversation,
                   jobVars, csVars, fnVars>>

\* handleOAuthCallback: the token exchange succeeded
CredCallback ==
    /\ Len(parentLog) < MaxChannel
    /\ parentLog' = PostContent(parentLog, TRUE, CallbackNotice)
    /\ UNCHANGED <<threadLog, hasParent, asmPc, asmMode, context, conversation,
                   jobVars, csVars, fnVars>>

\* resolveMcpServersWithOAuth: a stored payload has expired and is refreshed
CredRefresh ==
    /\ Len(parentLog) < MaxChannel
    /\ \E i \in 1..Len(parentLog) : HasOAuthBlob(parentLog[i].content)
    /\ parentLog' = PostContent(parentLog, TRUE, RefreshNotice)
    /\ UNCHANGED <<threadLog, hasParent, asmPc, asmMode, context, conversation,
                   jobVars, csVars, fnVars>>

\* a job on the channel fetches its context
CredFetch ==
    /\ asmPc \in {"init", "converted"}
    /\ fnPc < MaxRuns
    /\ context' = getChannelContext(parentLog)
    /\ asmMode' = "channel"
    /\ asmPc' = "fetched"
    /\ fnPc' = fnPc + 1
    /\ UNCHANGED <<parentLog, threadLog, hasParent, conversation, jobVars, csVars,
                   fnIn, fnMem, fnOut>>

\* and converts it for the model
CredConvert == AsmConvert

CredNext == CredOtherPost \/ CredCallback \/ CredRefresh \/ CredFetch \/ CredConvert

SpecCred == CredInit /\ [][CredNext]_vars

\* C40: no message that carries an encrypted OAuth payload, posted by the
\* OAuth callback or by a token refresh, is a turn of the conversation sent
\* to the model.
C40_NoCredentialInConversation ==
    \A i \in 1..Len(conversation) :
        ~conversation[i].synthetic =>
            \A j \in 1..Len(parentLog) :
                parentLog[j].id = conversation[i].id =>
                    \A k \in 1..Len(parentLog[j].content) :
                        parentLog[j].content[k] # "blob"

=============================================================================
